---- MODULE Spec2Model ----
(***************************************************************************)
(* PorterFS: the storage engine (internal/storage/local.go), the V4        *)
(* signature verifier (internal/auth/auth.go) and the routes of the server *)
(* (internal/server/server.go) as state machines.                          *)
(*                                                                         *)
(* A string of the program is a sequence of tokens.  A token is a TLA+     *)
(* string that is never split: the separators the code splits on ("/",     *)
(* ",", ";", " ", "&", "=") are tokens of their own.  A filesystem path is *)
(* the sequence of its components after filepath.Clean, starting at "/".   *)
(* A file is a link from a path to an inode; a file handle keeps the inode *)
(* and its own offset, as a POSIX descriptor does.                         *)
(***************************************************************************)
EXTENDS Integers, Sequences, FiniteSets, TLC

(***************************************************************************)
(* Bounds of the model.                                                    *)
(***************************************************************************)
MaxBody == 2        \* longest object or part body, in bytes
ChunkLen == 1       \* bytes moved by one read or write call of io.Copy
MaxOps == 3         \* storage operations started in one behaviour
MaxClock == 2       \* values the clock of time.Now().UnixNano() takes
MaxPart == 2        \* largest part number a client uploads

Procs == {1, 2}     \* request goroutines
SeqProcs == {1}     \* the goroutine of a client that waits for each reply

(***************************************************************************)
(* Strings as token sequences.                                             *)
(***************************************************************************)
RECURSIVE Flat(_)
Flat(s) == IF s = <<>> THEN "" ELSE Head(s) \o Flat(Tail(s))

\* strings.Split(s, sep)
RECURSIVE Split(_, _)
Split(s, sep) ==
    IF \A i \in 1..Len(s) : s[i] # sep
    THEN <<s>>
    ELSE LET i == CHOOSE n \in 1..Len(s) :
                    s[n] = sep /\ \A j \in 1..(n - 1) : s[j] # sep
         IN  <<SubSeq(s, 1, i - 1)>> \o Split(SubSeq(s, i + 1, Len(s)), sep)

\* strings.HasPrefix(s, prefix), prefix a token sequence
HasPrefix(s, prefix) ==
    Len(s) >= Len(prefix) /\ SubSeq(s, 1, Len(prefix)) = prefix

\* strings.TrimPrefix(s, prefix)
TrimPrefix(s, prefix) ==
    IF HasPrefix(s, prefix) THEN SubSeq(s, Len(prefix) + 1, Len(s)) ELSE s

\* strings.Join(elems, sep)
RECURSIVE JoinStr(_, _)
JoinStr(elems, sep) ==
    IF elems = <<>> THEN <<>>
    ELSE IF Len(elems) = 1 THEN elems[1]
    ELSE elems[1] \o <<sep>> \o JoinStr(Tail(elems), sep)

\* fmt.Sprintf("%05d", n): the sign, then zeros up to five characters
RECURSIVE ZeroPad(_, _)
ZeroPad(digits, width) ==
    IF Len(digits) >= width THEN digits ELSE ZeroPad("0" \o digits, width)

Sprintf05d(n) ==
    IF n < 0 THEN "-" \o ZeroPad(ToString(0 - n), 4) ELSE ZeroPad(ToString(n), 5)

\* fmt.Sprintf("part-%05d", partNumber)
PartName(n) == "part-" \o Sprintf05d(n)

(***************************************************************************)
(* path/filepath.                                                          *)
(***************************************************************************)
\* filepath.Clean on the components of a rooted path
RECURSIVE CleanRec(_, _)
CleanRec(rest, acc) ==
    IF rest = <<>> THEN acc
    ELSE LET c == Flat(Head(rest))
         IN  CleanRec(Tail(rest),
                      IF c = "" \/ c = "." THEN acc
                      ELSE IF c = ".."
                           THEN (IF acc = <<>> THEN acc
                                 ELSE SubSeq(acc, 1, Len(acc) - 1))
                           ELSE Append(acc, c))

\* filepath.Join(elems...): empty elements are ignored, the rest joined by "/"
\* and cleaned.  Every path of the engine starts with rootPath, which is rooted.
Join(elems) ==
    LET nonEmpty == SelectSeq(elems, LAMBDA e : e # <<>>)
    IN  CleanRec(Split(JoinStr(nonEmpty, "/"), "/"), <<>>)

\* the string of a cleaned rooted path
RECURSIVE PathStr(_)
PathStr(path) ==
    IF path = <<>> THEN <<>> ELSE <<"/", Head(path)>> \o PathStr(Tail(path))

PathString(path) == IF path = <<>> THEN <<"/">> ELSE PathStr(path)

\* filepath.Dir of a cleaned rooted path
Dir(path) == IF path = <<>> THEN <<>> ELSE SubSeq(path, 1, Len(path) - 1)

IsPrefix(p, q) == Len(p) <= Len(q) /\ SubSeq(q, 1, Len(p)) = p

\* LocalStorage.rootPath, the storage root the server was configured with
rootPath == <<"/", "data">>
Root == Join(<<rootPath>>)

bucketPath(bucket) == Join(<<rootPath, bucket>>)

objectPath(bucket, key) == Join(<<PathString(bucketPath(bucket)), key>>)

multipartDirOf(bucket, uploadID) ==
    Join(<<rootPath, <<".multipart">>, bucket, uploadID>>)

partFileOf(bucket, uploadID, partNumber) ==
    Join(<<PathString(multipartDirOf(bucket, uploadID)), <<PartName(partNumber)>>>>)

metaFileOf(bucket, uploadID) ==
    Join(<<PathString(multipartDirOf(bucket, uploadID)), <<"metadata">>>>)

UnderRoot(path) == IsPrefix(Root, path) /\ path # Root

(***************************************************************************)
(* State.                                                                  *)
(***************************************************************************)
VARIABLES
    dirs,       \* the directories of the filesystem, as cleaned rooted paths
    files,      \* path -> inode, for every regular file
    data,       \* inode -> content, for every inode linked or held open
    now,        \* the reading of time.Now().UnixNano()
    pc,         \* where each goroutine stands in its storage operation
    op,         \* the operation a goroutine runs (or ran last) and its arguments
    loc,        \* the locals of that operation: paths, handles, offsets
    res,        \* what the operation returned, and what its caller read
    nops,       \* operations the clients may still start
    stable,     \* history: path -> body of the PutObject that last succeeded
                \* there, while the file has not changed since
    partBody,   \* history: <<bucket, uploadID, n>> -> body of the last
                \* UploadPart that succeeded for that part
    upl,        \* history: <<bucket, uploadID>> -> "open" once initiated,
                \* "ended" once aborted or completed
    opened,     \* history: the <<bucket, uploadID, key>> of the uploads
                \* initiated and neither completed nor aborted since
    late,       \* history: the upload of the goroutine's operation had ended
                \* when the operation was called
    view,       \* history: the whole contents a GetObject in flight may
                \* return: the file when it was called, and the body of every
                \* PutObject on its path called since
    seen,       \* history: the goroutines whose operation overlapped the
                \* operation of this one
    deleted,    \* history: the <<bucket, key>> a DeleteObject removed, until a
                \* PutObject or CompleteMultipartUpload is called on it
    before,     \* history: what the call of the goroutine found where it acts
                \* (the object of a CompleteMultipartUpload, the entry of a
                \* DeleteObject or DeleteBucket, the object of a PutObject
                \* whose stream fails or differs from the declared size)
    req,        \* the HTTP request the server was sent last, and how the
                \* client made it
    resp        \* the response to it, and what the middleware did

fsVars == <<dirs, files, data>>
procVars == <<pc, op, loc, res, nops>>
histVars == <<stable, partBody, upl, opened, late, view, seen, before, deleted>>
httpVars == <<req, resp>>
vars == <<dirs, files, data, now, pc, op, loc, res, nops,
          stable, partBody, upl, opened, late, view, seen, before, deleted, req, resp>>

Zero == "NUL"                   \* the byte a hole of a file reads as
Byte == {"x", "y"}

\* the bodies a client sends: the prefixes of "xyxy..." and of "yxyx..."
Pattern(first, n) ==
    [i \in 1..n |-> IF (i % 2 = 1) = (first = "x") THEN "x" ELSE "y"]
Bodies == {Pattern(f, n) : f \in Byte, n \in 0..MaxBody}

NoOp == [kind |-> "none", bucket |-> <<>>, key |-> <<>>, body |-> <<>>,
         uploadID |-> <<>>, partNumber |-> 0, parts |-> <<>>,
         rangeHeader |-> <<>>, size |-> 0 - 1, readErr |-> "nil",
         prefix |-> <<>>, maxKeys |-> 0]
NoLoc == [path |-> <<>>, dir |-> <<>>, w |-> 0, woff |-> 0, r |-> 0,
          roff |-> 0, idx |-> 0, lim |-> 0 - 1]
NoRes == [err |-> "pending", data |-> <<>>, size |-> 0, etag |-> <<>>,
          uploadID |-> <<>>, truncated |-> FALSE]

\* crypto/md5 over a body, then "%x": an injective symbolic digest
MD5Hex(body) == <<"md5(">> \o body \o <<")">>

(***************************************************************************)
(* The os package over the filesystem.                                     *)
(***************************************************************************)
IsDir(path) == path \in dirs
IsFile(path) == path \in DOMAIN files
Exists(path) == IsDir(path) \/ IsFile(path)

ProperPrefixes(path) == {SubSeq(path, 1, n) : n \in 0..(Len(path) - 1)}
Prefixes(path) == {SubSeq(path, 1, n) : n \in 0..Len(path)}

Children(path) ==
    {q \in dirs \cup DOMAIN files : Len(q) = Len(path) + 1 /\ IsPrefix(path, q)}

\* os.Stat / os.Open: the errno, or "nil"
StatErr(path) ==
    IF Exists(path) THEN "nil"
    ELSE IF \E q \in ProperPrefixes(path) : IsFile(q) THEN "ENOTDIR"
    ELSE "ENOENT"

\* os.IsNotExist(err)
IsNotExist(err) == err = "ENOENT"

\* os.MkdirAll(path, 0755)
MkdirAllErr(path) ==
    IF \E q \in Prefixes(path) : IsFile(q) THEN "ENOTDIR" ELSE "nil"
MkdirAllDirs(path) == dirs \cup Prefixes(path)

\* os.Create(path): O_RDWR|O_CREATE|O_TRUNC
CreateErr(path) ==
    IF IsDir(path) THEN "EISDIR"
    ELSE IF IsDir(Dir(path)) THEN "nil"
    ELSE StatErr(Dir(path))

NewIno == CHOOSE i \in 1..(Cardinality(DOMAIN data) + 1) : i \notin DOMAIN data

\* the inode os.Create opens: the file's own inode when the file exists
CreateIno(path) == IF IsFile(path) THEN files[path] ELSE NewIno

\* the content os.Create leaves in that inode: O_TRUNC empties the file
CreateDataTrunc(path) == <<>>
CreateDataKeep(path) == IF IsFile(path) THEN data[files[path]] ELSE <<>>
CreateData(path) == CreateDataTrunc(path)

\* os.Remove(path)
RemoveErr(path) ==
    IF IsFile(path) THEN "nil"
    ELSE IF IsDir(path) THEN (IF Children(path) = {} THEN "nil" ELSE "ENOTEMPTY")
    ELSE StatErr(path)

\* os.RemoveAll(path): what is left
RemoveAllDirs(path) == {q \in dirs : ~IsPrefix(path, q)} \cup {<<>>}
RemoveAllFiles(path) ==
    [q \in {f \in DOMAIN files : ~IsPrefix(path, f)} |-> files[q]]

\* write(2) of chunk at offset off: a hole reads as zero bytes
WriteAt(content, off, chunk) ==
    LET padded == IF off > Len(content)
                  THEN content \o [i \in 1..(off - Len(content)) |-> Zero]
                  ELSE content
    IN  SubSeq(padded, 1, off) \o chunk
            \o SubSeq(padded, off + Len(chunk) + 1, Len(padded))

\* the disk is finite: a write that would grow a file past its room fails
DiskRoom == MaxPart * MaxBody + 1
WriteErr(off, chunk) == IF off + Len(chunk) > DiskRoom THEN "ENOSPC" ELSE "nil"

\* read(2) of at most n bytes at offset off
ReadAt(content, off, n) ==
    SubSeq(content, off + 1, IF off + n < Len(content) THEN off + n ELSE Len(content))

\* the inodes alive: linked, or held by an open handle
Live(fs, lc) ==
    {fs[q] : q \in DOMAIN fs} \cup {lc[p].w : p \in Procs} \cup {lc[p].r : p \in Procs}
Keep(dt, fs, lc) == [i \in (DOMAIN dt) \cap Live(fs, lc) |-> dt[i]]

Content(fs, dt, path) == IF path \in DOMAIN fs THEN <<"file">> \o dt[fs[path]] ELSE <<"absent">>

\* what a path names: a file, a directory with or without entries, nothing
Entry(path) ==
    IF IsFile(path) THEN <<"file">>
    ELSE IF IsDir(path) THEN <<"dir", Children(path) # {}>>
    ELSE <<"absent">>

(***************************************************************************)
(* The HTTP request and response.                                          *)
(***************************************************************************)
HeaderNames == {"authorization", "x-amz-date", "x-amz-content-sha256", "x-amz-meta-a"}

\* http.Request: Method, the path as sent, URL.RawQuery, Host, Header under
\* the lower-cased names with "" for a header that was not sent, and what
\* Body delivers
NoRequest == [Method |-> "", RawPath |-> <<>>, RawQuery |-> <<>>, Host |-> <<>>,
              Header |-> [h \in HeaderNames |-> <<>>], Body |-> <<>>]

NoReq == [phase |-> "none", r |-> NoRequest, changed |-> "none"]
NoResp == [status |-> 0, body |-> "", err |-> "", next |-> FALSE]

\* the byte a percent-escape of the text stands for
PctDecoded(t) == IF t = "%20" THEN " " ELSE IF t \in {"%4a", "%4A"} THEN "J" ELSE t

\* url.PathUnescape
PathUnescape(s) == [i \in 1..Len(s) |-> PctDecoded(s[i])]

\* r.URL.Path: the path of the request line, unescaped
URLPath(r) == PathUnescape(r.RawPath)

(***************************************************************************)
(* internal/server: the routes Server.ListenAndServe registers on the      *)
(* router itself, before the S3 routes and outside the authentication      *)
(* middleware: GET /test, and under /test-storage the routes               *)
(* /bucket/{bucket} (POST, GET) and /bucket/{bucket}/object/{object:.*}    *)
(* (PUT, GET).                                                             *)
(***************************************************************************)
\* the route of these a request matches, "" for none of them
DiagRoute(r) ==
    LET path == URLPath(r)
        underBucket == /\ Len(path) >= 6
                       /\ SubSeq(path, 1, 5) = <<"/", "test-storage", "/", "bucket", "/">>
                       /\ path[6] # "/"
    IN  IF path = <<"/", "test">>
        THEN IF r.Method = "GET" THEN "test" ELSE ""
        ELSE IF underBucket /\ Len(path) = 6
        THEN IF r.Method = "POST" THEN "test-storage CreateBucket"
             ELSE IF r.Method = "GET" THEN "test-storage ListObjects"
             ELSE ""
        ELSE IF underBucket /\ Len(path) >= 9
                /\ SubSeq(path, 7, 9) = <<"/", "object", "/">>
        THEN IF r.Method = "PUT" THEN "test-storage PutObject"
             ELSE IF r.Method = "GET" THEN "test-storage GetObject"
             ELSE ""
        ELSE ""

\* chi.URLParam(r, "bucket") and chi.URLParam(r, "object") on these routes
DiagParam(r, name) ==
    IF name = "bucket" THEN <<URLPath(r)[6]>>
    ELSE SubSeq(URLPath(r), 10, Len(URLPath(r)))

\* what the closure of a /test-storage route writes for what the storage
\* engine returned
DiagRespond(o, r) ==
    IF o.kind = "GetObject"
    THEN IF r.err = "read:EISDIR" THEN [status |-> 500, body |-> r.err \o "\n"]
         ELSE IF r.err # "nil" THEN [status |-> 404, body |-> r.err \o "\n"]
         ELSE [status |-> 200, body |-> Flat(r.data)]
    ELSE IF r.err # "nil" THEN [status |-> 500, body |-> r.err \o "\n"]
    ELSE IF o.kind = "CreateBucket"
    THEN [status |-> 200,
          body |-> "{\"status\": \"ok\", \"message\": \"Bucket created\", \"bucket\": \""
                      \o Flat(o.bucket) \o "\"}"]
    ELSE IF o.kind = "ListObjects"
    THEN [status |-> 200,
          body |-> "{\"status\": \"ok\", \"bucket\": \"" \o Flat(o.bucket)
                      \o "\", \"objects\": " \o ToString(Len(r.data)) \o "}"]
    ELSE [status |-> 200,
          body |-> "{\"status\": \"ok\", \"message\": \"Object uploaded\", \"bucket\": \""
                      \o Flat(o.bucket) \o "\", \"object\": \"" \o Flat(o.key) \o "\"}"]

(***************************************************************************)
(* internal/handlers: the response a handler writes for what the storage   *)
(* engine returned to it.                                                  *)
(***************************************************************************)
\* http.Error(w, text, status)
HttpError(status, text) == [status |-> status, body |-> text \o "\n", etag |-> <<>>]

\* w.WriteHeader(status), after w.Header().Set("ETag", etag) where the
\* handler sets one
Written(status, etag) == [status |-> status, body |-> "", etag |-> etag]

\* storage.ErrNotFound is the only error a handler tells from the others
Respond(o, r) ==
    IF o.kind = "GetObject"
    THEN IF r.err = "ErrNotFound" THEN HttpError(404, "Object not found")
         ELSE IF r.err \notin {"nil", "read:EISDIR"} THEN HttpError(500, r.err)
         ELSE Written(IF o.rangeHeader # <<>> THEN 206 ELSE 200, r.etag)
    ELSE IF o.kind = "HeadObject"
    THEN IF r.err = "ErrNotFound" THEN HttpError(404, "Object not found")
         ELSE IF r.err # "nil" THEN HttpError(500, r.err)
         ELSE Written(200, r.etag)
    ELSE IF r.err # "nil" THEN HttpError(500, r.err)
    ELSE IF o.kind = "UploadPart" THEN Written(200, r.etag)
    ELSE IF o.kind = "CompleteMultipartUpload"
    THEN Written(200, <<"\"">> \o o.uploadID \o <<"\"">>)
    ELSE IF o.kind \in {"DeleteBucket", "DeleteObject", "AbortMultipartUpload"}
    THEN Written(204, <<>>)
    ELSE Written(200, <<>>)

(***************************************************************************)
(* The frame of one step of a goroutine.                                   *)
(***************************************************************************)
\* what the call o finds where it acts
Found(o) ==
    IF o.kind = "CompleteMultipartUpload"
    THEN Content(files, data, objectPath(o.bucket, o.key))
    ELSE IF o.kind = "DeleteObject" THEN Entry(objectPath(o.bucket, o.key))
    ELSE IF o.kind = "DeleteBucket" THEN Entry(bucketPath(o.bucket))
    ELSE IF o.kind = "PutObject" /\ (o.readErr # "nil" \/ o.size # Len(o.body))
    THEN Content(files, data, objectPath(o.bucket, o.key))
    ELSE <<>>

\* the first step of an operation: the call binds the arguments
InFlight == {q \in Procs : pc[q] # "idle"}

Begin(p, o) ==
    /\ pc[p] = "idle"
    /\ nops > 0
    /\ nops' = nops - 1
    /\ op' = [op EXCEPT ![p] = o]
    /\ late' = [late EXCEPT ![p] = /\ <<o.bucket, o.uploadID>> \in DOMAIN upl
                                    /\ upl[<<o.bucket, o.uploadID>>] = "ended"]
    /\ seen' = [q \in Procs |-> IF q = p THEN InFlight
                                 ELSE IF q \in InFlight THEN seen[q] \cup {p}
                                 ELSE seen[q]]
    /\ before' = [before EXCEPT ![p] = Found(o)]

\* a later step of the operation
At(p, label) ==
    /\ pc[p] = label
    /\ UNCHANGED <<op, nops, late, seen, before>>

KeepStable ==
    LET same == {q \in DOMAIN stable :
                    Content(files', data', q) = Content(files, data, q)}
    IN  [q \in same |-> stable[q]]

\* One step: it leaves the filesystem as (newDirs, newFiles, newData) and the
\* goroutine at label next with locals l and result r.  A step to "idle" is
\* the return of the operation: the deferred Close runs, and the history
\* variables record a PutObject or UploadPart that returned nil.
Do(p, next, l, r, newDirs, newFiles, newData) ==
    /\ dirs' = newDirs
    /\ files' = newFiles
    /\ pc' = [pc EXCEPT ![p] = next]
    /\ loc' = [loc EXCEPT ![p] = IF next = "idle"
                                  THEN [l EXCEPT !.w = 0, !.r = 0] ELSE l]
    /\ res' = [res EXCEPT ![p] = r]
    /\ data' = Keep(newData, newFiles, loc')
    /\ stable' = IF next = "idle" /\ op'[p].kind = "PutObject" /\ r.err = "nil"
                 THEN (l.path :> op'[p].body) @@ KeepStable
                 ELSE KeepStable
    /\ partBody' = IF next = "idle" /\ op'[p].kind = "UploadPart" /\ r.err = "nil"
                   THEN (<<op'[p].bucket, op'[p].uploadID, op'[p].partNumber>>
                            :> op'[p].body) @@ partBody
                   ELSE partBody
    /\ upl' = LET u == <<op'[p].bucket, op'[p].uploadID>>
               IN  IF next = "idle" /\ r.err = "nil"
                      /\ op'[p].kind = "InitMultipartUpload"
                   THEN (u :> "open") @@ upl
                   ELSE IF next = "idle" /\ r.err = "nil" /\ u \in DOMAIN upl
                           /\ op'[p].kind \in {"CompleteMultipartUpload",
                                                "AbortMultipartUpload"}
                   THEN (u :> "ended") @@ upl
                   ELSE upl
    /\ opened' = LET u == <<op'[p].bucket, op'[p].uploadID>>
                  IN  IF next = "idle" /\ r.err = "nil"
                         /\ op'[p].kind = "InitMultipartUpload"
                      THEN opened \cup {u \o <<op'[p].key>>}
                      ELSE IF next = "idle" /\ r.err = "nil"
                              /\ op'[p].kind \in {"CompleteMultipartUpload",
                                                   "AbortMultipartUpload"}
                      THEN {t \in opened : <<t[1], t[2]>> # u}
                      ELSE opened
    /\ view' = [q \in Procs |->
                  IF pc[p] # "idle" THEN view[q]
                  ELSE IF q = p
                  THEN IF op'[p].kind # "GetObject" THEN {}
                       ELSE IF \A w \in InFlight :
                                  \/ op[w].kind = "GetObject"
                                  \/ /\ op[w].kind = "PutObject"
                                     /\ loc[w].w = 0
                                     /\ loc[w].path = l.path
                       THEN {Content(files, data, l.path)}
                              \cup {<<"file">> \o op[w].body :
                                      w \in {i \in InFlight : op[i].kind = "PutObject"}}
                       ELSE {<<"any">>}
                  ELSE IF pc[q] = "idle" \/ op[q].kind # "GetObject"
                          \/ op'[p].kind \in {"GetObject", "HeadObject"}
                  THEN view[q]
                  ELSE IF op'[p].kind # "PutObject" THEN {<<"any">>}
                  ELSE IF loc[q].path = l.path
                  THEN view[q] \cup {<<"file">> \o op'[p].body}
                  ELSE view[q]]
    /\ deleted' = LET k == <<op'[p].bucket, op'[p].key>>
                   IN  IF next = "idle" /\ r.err = "nil"
                          /\ op'[p].kind = "DeleteObject"
                       THEN deleted \cup {k}
                       ELSE IF op'[p].kind \in {"PutObject", "CompleteMultipartUpload"}
                       THEN deleted \ {k}
                       ELSE deleted
    /\ now' = now

\* the handler that called the operation writes its response when the
\* operation returns, a closure of the /test-storage routes as DiagRespond
\* and with no word of the middleware (err and next stay those of NoResp);
\* an operation a client of the storage engine called itself has no request
\* and no response
Http(p) ==
    IF req.phase \in {"sent", "handling"}
    THEN /\ req' = [req EXCEPT !.phase = IF pc'[p] = "idle" THEN "served"
                                         ELSE "handling"]
         /\ resp' = IF DiagRoute(req.r) # ""
                    THEN IF pc'[p] = "idle"
                         THEN LET w == DiagRespond(op'[p], res'[p])
                              IN  [NoResp EXCEPT !.status = w.status, !.body = w.body]
                         ELSE NoResp
                    ELSE IF pc'[p] = "idle"
                    THEN LET w == Respond(op'[p], res'[p])
                         IN  [status |-> w.status, body |-> w.body,
                              err |-> "nil", next |-> TRUE]
                    ELSE [NoResp EXCEPT !.err = "nil", !.next = TRUE]
    ELSE UNCHANGED httpVars

Step(p, next, l, r, newDirs, newFiles, newData) ==
    /\ Do(p, next, l, r, newDirs, newFiles, newData)
    /\ Http(p)

Fail(e) == [NoRes EXCEPT !.err = e]

(***************************************************************************)
(* LocalStorage.CreateBucket, DeleteBucket.                                *)
(***************************************************************************)
CreateBucket(p, bucket) ==
    /\ Begin(p, [NoOp EXCEPT !.kind = "CreateBucket", !.bucket = bucket])
    /\ LET path == bucketPath(bucket)
           err == MkdirAllErr(path)
       IN  Do(p, "idle", [NoLoc EXCEPT !.path = path], Fail(err),
              IF err = "nil" THEN MkdirAllDirs(path) ELSE dirs, files, data)

DeleteBucket(p, bucket) ==
    /\ Begin(p, [NoOp EXCEPT !.kind = "DeleteBucket", !.bucket = bucket])
    /\ LET path == bucketPath(bucket)
           err == RemoveErr(path)
       IN  Do(p, "idle", [NoLoc EXCEPT !.path = path], Fail(err),
              IF err = "nil" THEN dirs \ {path} ELSE dirs,
              IF err = "nil"
              THEN [q \in (DOMAIN files) \ {path} |-> files[q]] ELSE files,
              data)

\* the names a directory of the root takes, in the order os.ReadDir lists
\* them (by file name, byte by byte)
BucketOrder == <<".multipart", "a b", "b", "test", "test-storage">>
RECURSIVE SortedNames(_, _)
SortedNames(names, order) ==
    IF order = <<>> THEN <<>>
    ELSE (IF Head(order) \in names THEN <<<<Head(order)>>>> ELSE <<>>)
            \o SortedNames(names, Tail(order))

\* LocalStorage.ListBuckets: the names of the directories of the root
ListBuckets(p) ==
    /\ Begin(p, [NoOp EXCEPT !.kind = "ListBuckets"])
    /\ LET names == {q[Len(q)] : q \in {c \in Children(Root) : IsDir(c)}}
       IN  Step(p, "idle", [NoLoc EXCEPT !.path = Root],
                IF ~IsDir(Root)
                THEN Fail(IF IsFile(Root) THEN "ENOTDIR" ELSE StatErr(Root))
                ELSE [NoRes EXCEPT !.err = "nil",
                                   !.data = SortedNames(names, BucketOrder)],
                dirs, files, data)

(***************************************************************************)
(* LocalStorage.PutObject.                                                 *)
(***************************************************************************)
\* PutObject(ctx, bucket, key, reader, size, contentType): the reader delivers
\* body and then ends with readErr ("nil" is io.EOF, the end io.Copy takes
\* for success); size is the length the caller declared, -1 for none
PutObject(p, bucket, key, body, size, readErr) ==
    /\ Begin(p, [NoOp EXCEPT !.kind = "PutObject", !.bucket = bucket,
                             !.key = key, !.body = body, !.size = size,
                             !.readErr = readErr])
    /\ LET path == objectPath(bucket, key)
           dir == Dir(path)
           err == MkdirAllErr(dir)
           l == [NoLoc EXCEPT !.path = path, !.dir = dir]
       IN  IF err # "nil"
           THEN Step(p, "idle", l, Fail(err), dirs, files, data)
           ELSE Step(p, "PutObject_Create", l, NoRes, MkdirAllDirs(dir), files, data)

\* the call of a client whose stream ends where it declared
PutObject_MkdirAll(p, bucket, key, body) ==
    PutObject(p, bucket, key, body, Len(body), "nil")

\* os.Create, and the return of an io.Copy whose reader delivers nothing
PutObject_Create(p) ==
    /\ At(p, "PutObject_Create")
    /\ LET path == loc[p].path
           err == CreateErr(path)
           ino == CreateIno(path)
           l == [loc[p] EXCEPT !.w = ino, !.woff = 0]
       IN  IF err # "nil"
           THEN Step(p, "idle", loc[p], Fail(err), dirs, files, data)
           ELSE Step(p, IF op[p].body = <<>> THEN "idle" ELSE "PutObject_Copy",
                     l, IF op[p].body = <<>> THEN Fail(op[p].readErr) ELSE NoRes,
                     dirs, (path :> ino) @@ files,
                     (ino :> CreateData(path)) @@ data)

\* io.Copy(file, reader): one write of the next chunk at the handle's offset;
\* the write of the last chunk is followed by the end of the reader and the
\* return of what it ended with
CopyChunk(body, off) == ReadAt(body, off, ChunkLen)

PutObject_Copy(p) ==
    /\ At(p, "PutObject_Copy")
    /\ LET chunk == CopyChunk(op[p].body, loc[p].woff)
           off == loc[p].woff + Len(chunk)
           last == off >= Len(op[p].body)
           l == [loc[p] EXCEPT !.woff = off]
           err == WriteErr(loc[p].woff, chunk)
       IN  IF err # "nil"
           THEN Step(p, "idle", loc[p], Fail(err), dirs, files, data)
           ELSE Step(p, IF last THEN "idle" ELSE "PutObject_Copy", l,
                     IF last THEN Fail(op[p].readErr) ELSE NoRes, dirs, files,
                     [data EXCEPT ![loc[p].w] = WriteAt(@, loc[p].woff, chunk)])

(***************************************************************************)
(* LocalStorage.GetObject, and the caller reading the stream it returns.   *)
(***************************************************************************)
\* what file.Stat reports as the size of a directory depends on the filesystem
DirSizes == {0, MaxBody + 1}

GetObject_Open(p, bucket, key, rangeHeader) ==
    /\ Begin(p, [NoOp EXCEPT !.kind = "GetObject", !.bucket = bucket,
                             !.key = key, !.rangeHeader = rangeHeader])
    /\ LET path == objectPath(bucket, key)
           err == StatErr(path)
           l == [NoLoc EXCEPT !.path = path,
                              !.r = IF IsFile(path) THEN files[path] ELSE 0 - 1]
       IN  IF err # "nil"
           THEN Step(p, "idle", [NoLoc EXCEPT !.path = path],
                     Fail(IF IsNotExist(err) THEN "ErrNotFound" ELSE err),
                     dirs, files, data)
           ELSE Step(p, "GetObject_Stat", l, NoRes, dirs, files, data)

\* strconv.ParseInt(s, 10, 64) on the numerals a client writes in a range
Numerals == 0..(MaxBody + 1)
IsNumeral(t) == \E n \in Numerals : ToString(n) = t
NumeralValue(t) == CHOOSE n \in Numerals : ToString(n) = t

ParseInt(s) ==
    IF Len(s) = 1 /\ IsNumeral(s[1])
    THEN [err |-> "nil", n |-> NumeralValue(s[1])]
    ELSE IF Len(s) = 2 /\ s[1] = "+" /\ IsNumeral(s[2])
    THEN [err |-> "nil", n |-> NumeralValue(s[2])]
    ELSE IF Len(s) = 2 /\ s[1] = "-" /\ IsNumeral(s[2])
    THEN [err |-> "nil", n |-> 0 - NumeralValue(s[2])]
    ELSE [err |-> "invalid syntax", n |-> 0]

\* rangeSize := end - start + 1
RangeSizeShort(start, end) == end - start
RangeSize(start, end) == end - start + 1

\* LocalStorage.handleRangeRequest on a file of the size file.Stat reported:
\* the error, the offset it seeks to and the limit of the reader it returns
handleRangeRequest(size, rangeHeader) ==
    LET rangeSpec == TrimPrefix(rangeHeader, <<"bytes=">>)
        rangeParts == Split(rangeSpec, "-")
        first == ParseInt(rangeParts[1])
        last == ParseInt(rangeParts[2])
        start == IF rangeParts[1] # <<>> THEN first.n ELSE 0
        end == IF rangeParts[2] # <<>> THEN last.n ELSE size - 1
        none == [err |-> "nil", start |-> 0, rangeSize |-> 0]
    IN  IF ~HasPrefix(rangeHeader, <<"bytes=">>)
        THEN [none EXCEPT !.err = "invalid range header format"]
        ELSE IF Len(rangeParts) # 2
        THEN [none EXCEPT !.err = "invalid range specification"]
        ELSE IF rangeParts[1] # <<>> /\ first.err # "nil"
        THEN [none EXCEPT !.err = "invalid range start"]
        ELSE IF rangeParts[2] # <<>> /\ last.err # "nil"
        THEN [none EXCEPT !.err = "invalid range end"]
        ELSE IF start < 0 \/ end >= size \/ start > end
        THEN [none EXCEPT !.err = "invalid range"]
        ELSE [err |-> "nil", start |-> start, rangeSize |-> RangeSize(start, end)]

\* file.Stat, handleRangeRequest when a Range was sent, and the return of
\* (file, info, nil); the handle stays open
GetObject_Stat(p) ==
    /\ At(p, "GetObject_Stat")
    /\ \E size \in IF loc[p].r > 0 THEN {Len(data[loc[p].r])} ELSE DirSizes :
          LET info == [NoRes EXCEPT !.err = "nil", !.size = size,
                                    !.etag = MD5Hex(op[p].key)]
              range == handleRangeRequest(size, op[p].rangeHeader)
          IN  IF op[p].rangeHeader = <<>>
              THEN Step(p, "GetObject_Read", loc[p], info, dirs, files, data)
              ELSE IF range.err # "nil"
              THEN Step(p, "idle", loc[p], Fail(range.err), dirs, files, data)
              ELSE Step(p, "GetObject_Read",
                        [loc[p] EXCEPT !.roff = range.start, !.lim = range.rangeSize],
                        [info EXCEPT !.size = range.rangeSize],
                        dirs, files, data)

\* the caller's next Read of the stream, through the io.LimitReader of a
\* range; at end of file it closes the stream
GetObject_Read(p) ==
    /\ At(p, "GetObject_Read")
    /\ IF loc[p].r < 0
       THEN Step(p, "idle", loc[p], [res[p] EXCEPT !.err = "read:EISDIR"],
                 dirs, files, data)
       ELSE LET n == IF loc[p].lim >= 0 /\ loc[p].lim < ChunkLen
                     THEN loc[p].lim ELSE ChunkLen
                chunk == ReadAt(data[loc[p].r], loc[p].roff, n)
            IN  IF chunk = <<>>
                THEN Step(p, "idle", loc[p], res[p], dirs, files, data)
                ELSE Step(p, "GetObject_Read",
                          [loc[p] EXCEPT !.roff = @ + Len(chunk),
                                         !.lim = IF @ < 0 THEN @ ELSE @ - Len(chunk)],
                          [res[p] EXCEPT !.data = @ \o chunk],
                          dirs, files, data)

(***************************************************************************)
(* LocalStorage.HeadObject, DeleteObject.                                  *)
(***************************************************************************)
HeadObject(p, bucket, key) ==
    /\ Begin(p, [NoOp EXCEPT !.kind = "HeadObject", !.bucket = bucket, !.key = key])
    /\ LET path == objectPath(bucket, key)
           err == StatErr(path)
       IN  \E size \in IF IsFile(path) THEN {Len(data[files[path]])} ELSE DirSizes :
              Step(p, "idle", [NoLoc EXCEPT !.path = path],
                   IF err # "nil"
                   THEN Fail(IF IsNotExist(err) THEN "os.ErrNotExist" ELSE err)
                   ELSE [NoRes EXCEPT !.err = "nil", !.size = size,
                                      !.etag = MD5Hex(key)],
                   dirs, files, data)

DeleteObject(p, bucket, key) ==
    /\ Begin(p, [NoOp EXCEPT !.kind = "DeleteObject", !.bucket = bucket, !.key = key])
    /\ LET path == objectPath(bucket, key)
           err == RemoveErr(path)
       IN  Step(p, "idle", [NoLoc EXCEPT !.path = path], Fail(err),
                IF err = "nil" THEN dirs \ {path} ELSE dirs,
                IF err = "nil"
                THEN [q \in (DOMAIN files) \ {path} |-> files[q]] ELSE files,
                data)

(***************************************************************************)
(* LocalStorage.ListObjects.                                               *)
(***************************************************************************)
\* the names the entries of a bucket or of an upload directory take, in the
\* order os.ReadDir lists them (by file name, byte by byte)
NameOrder ==
    <<".multipart", "1", "2", "3", "a", "a b", "b", "d", "etc", "j", "k",
      "metadata", PartName(1), PartName(2), PartName(3), "test", "test-storage",
      "x", "y", "z">>

\* os.ReadDir(path): the entries, sorted by name
ReadDirErr(path) ==
    IF IsDir(path) THEN "nil" ELSE IF IsFile(path) THEN "ENOTDIR" ELSE StatErr(path)
ReadDir(path) ==
    LET names == SortedNames({q[Len(q)] : q \in Children(path)}, NameOrder)
    IN  [i \in 1..Len(names) |-> path \o names[i]]

\* the loop over the entries: it stops, reporting a truncated listing, at the
\* first entry it comes to with maxKeys objects collected; it passes over a
\* directory, and over a file whose name does not start with prefix
RECURSIVE ListLoop(_, _, _, _)
ListLoop(entries, prefix, maxKeys, objects) ==
    IF entries = <<>> THEN [objects |-> objects, truncated |-> FALSE]
    ELSE IF Len(objects) >= maxKeys THEN [objects |-> objects, truncated |-> TRUE]
    ELSE LET entry == Head(entries)
             name == <<entry[Len(entry)]>>
         IN  IF IsDir(entry) \/ (prefix # <<>> /\ ~HasPrefix(name, prefix))
             THEN ListLoop(Tail(entries), prefix, maxKeys, objects)
             ELSE ListLoop(Tail(entries), prefix, maxKeys,
                           Append(objects, [Key |-> name,
                                            Size |-> Len(data[files[entry]]),
                                            ETag |-> MD5Hex(name)]))

\* ListObjects(ctx, bucket, prefix, delimiter, maxKeys): delimiter is not read
ListObjects(p, bucket, prefix, maxKeys) ==
    /\ Begin(p, [NoOp EXCEPT !.kind = "ListObjects", !.bucket = bucket,
                             !.prefix = prefix, !.maxKeys = maxKeys])
    /\ LET path == bucketPath(bucket)
           err == ReadDirErr(path)
           listed == ListLoop(ReadDir(path), prefix, maxKeys, <<>>)
       IN  Step(p, "idle", [NoLoc EXCEPT !.path = path],
                IF err # "nil"
                THEN Fail(IF IsNotExist(err) THEN "os.ErrNotExist" ELSE err)
                ELSE [NoRes EXCEPT !.err = "nil", !.data = listed.objects,
                                   !.truncated = listed.truncated],
                dirs, files, data)

(***************************************************************************)
(* The multipart upload: InitMultipartUpload, UploadPart,                  *)
(* CompleteMultipartUpload, AbortMultipartUpload.                          *)
(***************************************************************************)
\* fmt.Sprintf("%d", time.Now().UnixNano())
UploadIDAt(t) == <<ToString(t)>>

\* fmt.Sprintf("bucket=%s\nkey=%s\ninitiated=%s\n", bucket, key, now)
Metadata(bucket, key, t) ==
    <<"bucket=">> \o bucket \o <<"\n", "key=">> \o key
        \o <<"\n", "initiated=", ToString(t), "\n">>

InitMultipartUpload_MkdirAll(p, bucket, key) ==
    /\ Begin(p, [NoOp EXCEPT !.kind = "InitMultipartUpload", !.bucket = bucket,
                             !.key = key, !.uploadID = UploadIDAt(now)])
    /\ LET dir == multipartDirOf(bucket, UploadIDAt(now))
           err == MkdirAllErr(dir)
           l == [NoLoc EXCEPT !.dir = dir, !.path = metaFileOf(bucket, UploadIDAt(now))]
       IN  IF err # "nil"
           THEN Step(p, "idle", l, Fail("failed to create multipart directory"),
                     dirs, files, data)
           ELSE Step(p, "InitMultipartUpload_WriteFile", l, NoRes,
                     MkdirAllDirs(dir), files, data)

\* os.WriteFile(metaFile, metadata, 0644) and the return of the upload id
InitMultipartUpload_WriteFile(p) ==
    /\ At(p, "InitMultipartUpload_WriteFile")
    /\ LET path == loc[p].path
           err == CreateErr(path)
           ino == CreateIno(path)
       IN  IF err # "nil"
           THEN Step(p, "idle", loc[p], Fail("failed to write metadata"),
                     dirs, files, data)
           ELSE Step(p, "idle", loc[p],
                     [NoRes EXCEPT !.err = "nil", !.uploadID = op[p].uploadID],
                     dirs, (path :> ino) @@ files,
                     (ino :> Metadata(op[p].bucket, op[p].key, now)) @@ data)

\* the check both UploadPart and CompleteMultipartUpload start with
UploadExists(dir) == ~IsNotExist(StatErr(dir))

UploadPart_Stat(p, bucket, key, uploadID, partNumber, body) ==
    /\ Begin(p, [NoOp EXCEPT !.kind = "UploadPart", !.bucket = bucket, !.key = key,
                             !.uploadID = uploadID, !.partNumber = partNumber,
                             !.body = body])
    /\ LET dir == multipartDirOf(bucket, uploadID)
           l == [NoLoc EXCEPT !.dir = dir,
                              !.path = partFileOf(bucket, uploadID, partNumber)]
       IN  IF ~UploadExists(dir)
           THEN Step(p, "idle", l, Fail("multipart upload not found"),
                     dirs, files, data)
           ELSE Step(p, "UploadPart_Create", l, NoRes, dirs, files, data)

UploadPart_Create(p) ==
    /\ At(p, "UploadPart_Create")
    /\ LET path == loc[p].path
           err == CreateErr(path)
           ino == CreateIno(path)
           l == [loc[p] EXCEPT !.w = ino, !.woff = 0]
           empty == op[p].body = <<>>
       IN  IF err # "nil"
           THEN Step(p, "idle", loc[p], Fail("failed to create part file"),
                     dirs, files, data)
           ELSE Step(p, IF empty THEN "idle" ELSE "UploadPart_Copy", l,
                     IF empty
                     THEN [NoRes EXCEPT !.err = "nil", !.etag = MD5Hex(op[p].body)]
                     ELSE NoRes,
                     dirs, (path :> ino) @@ files,
                     (ino :> CreateData(path)) @@ data)

\* io.Copy(io.MultiWriter(file, hasher), reader), then the etag of what was read
UploadPart_Copy(p) ==
    /\ At(p, "UploadPart_Copy")
    /\ LET chunk == CopyChunk(op[p].body, loc[p].woff)
           off == loc[p].woff + Len(chunk)
           last == off >= Len(op[p].body)
           l == [loc[p] EXCEPT !.woff = off]
           err == WriteErr(loc[p].woff, chunk)
       IN  IF err # "nil"
           THEN Step(p, "idle", loc[p], Fail("failed to write part"),
                     dirs, files, data)
           ELSE Step(p, IF last THEN "idle" ELSE "UploadPart_Copy", l,
                     IF last
                     THEN [NoRes EXCEPT !.err = "nil", !.etag = MD5Hex(op[p].body)]
                     ELSE NoRes,
                     dirs, files,
                     [data EXCEPT ![loc[p].w] = WriteAt(@, loc[p].woff, chunk)])

CompleteMultipartUpload_Stat(p, bucket, key, uploadID, parts) ==
    /\ Begin(p, [NoOp EXCEPT !.kind = "CompleteMultipartUpload", !.bucket = bucket,
                             !.key = key, !.uploadID = uploadID, !.parts = parts])
    /\ LET dir == multipartDirOf(bucket, uploadID)
           l == [NoLoc EXCEPT !.dir = dir, !.path = objectPath(bucket, key)]
       IN  IF ~UploadExists(dir)
           THEN Step(p, "idle", l, Fail("multipart upload not found"),
                     dirs, files, data)
           ELSE Step(p, "CompleteMultipartUpload_MkdirAll", l, NoRes,
                     dirs, files, data)

CompleteMultipartUpload_MkdirAll(p) ==
    /\ At(p, "CompleteMultipartUpload_MkdirAll")
    /\ LET objectDir == Dir(loc[p].path)
           err == MkdirAllErr(objectDir)
       IN  IF err # "nil"
           THEN Step(p, "idle", loc[p], Fail("failed to create object directory"),
                     dirs, files, data)
           ELSE Step(p, "CompleteMultipartUpload_Create", loc[p], NoRes,
                     MkdirAllDirs(objectDir), files, data)

CompleteMultipartUpload_Create(p) ==
    /\ At(p, "CompleteMultipartUpload_Create")
    /\ LET path == loc[p].path
           err == CreateErr(path)
           ino == CreateIno(path)
           l == [loc[p] EXCEPT !.w = ino, !.woff = 0, !.idx = 1]
       IN  IF err # "nil"
           THEN Step(p, "idle", loc[p], Fail("failed to create final object"),
                     dirs, files, data)
           ELSE Step(p, IF op[p].parts = <<>>
                        THEN "CompleteMultipartUpload_RemoveAll"
                        ELSE "CompleteMultipartUpload_OpenPart",
                     l, NoRes, dirs, (path :> ino) @@ files,
                     (ino :> CreateData(path)) @@ data)

\* the order the loop reads the listed parts in: the order of the list
PartAt(parts, idx) == parts[idx]

\* os.Open(partFile) of the part the loop stands at
CompleteMultipartUpload_OpenPart(p) ==
    /\ At(p, "CompleteMultipartUpload_OpenPart")
    /\ LET part == PartAt(op[p].parts, loc[p].idx)
           partFile == Join(<<PathString(loc[p].dir), <<PartName(part.PartNumber)>>>>)
           err == StatErr(partFile)
           l == [loc[p] EXCEPT !.roff = 0,
                    !.r = IF IsFile(partFile) THEN files[partFile] ELSE 0 - 1]
       IN  IF err # "nil"
           THEN Step(p, "idle", loc[p], Fail("failed to open part"),
                     dirs, files, data)
           ELSE Step(p, "CompleteMultipartUpload_CopyPart", l, NoRes,
                     dirs, files, data)

\* io.Copy(finalFile, partReader): one read of the part and the write of what
\* was read; a read at the end of the part closes it and moves to the next
CompleteMultipartUpload_CopyPart(p) ==
    /\ At(p, "CompleteMultipartUpload_CopyPart")
    /\ IF loc[p].r < 0
       THEN Step(p, "idle", loc[p], Fail("failed to copy part"), dirs, files, data)
       ELSE LET chunk == ReadAt(data[loc[p].r], loc[p].roff, ChunkLen)
                more == loc[p].idx < Len(op[p].parts)
            IN  IF chunk = <<>>
                THEN Step(p, IF more THEN "CompleteMultipartUpload_OpenPart"
                                     ELSE "CompleteMultipartUpload_RemoveAll",
                          [loc[p] EXCEPT !.r = 0, !.roff = 0, !.idx = @ + 1],
                          NoRes, dirs, files, data)
                ELSE IF WriteErr(loc[p].woff, chunk) # "nil"
                THEN Step(p, "idle", loc[p], Fail("failed to copy part"),
                          dirs, files, data)
                ELSE Step(p, "CompleteMultipartUpload_CopyPart",
                          [loc[p] EXCEPT !.roff = @ + Len(chunk),
                                         !.woff = @ + Len(chunk)],
                          NoRes, dirs, files,
                          [data EXCEPT ![loc[p].w] = WriteAt(@, loc[p].woff, chunk)])

\* os.RemoveAll(multipartDir), its error dropped, and return nil
CompleteMultipartUpload_RemoveAll(p) ==
    /\ At(p, "CompleteMultipartUpload_RemoveAll")
    /\ Step(p, "idle", loc[p], Fail("nil"), RemoveAllDirs(loc[p].dir),
            RemoveAllFiles(loc[p].dir), data)

AbortMultipartUpload(p, bucket, key, uploadID) ==
    /\ Begin(p, [NoOp EXCEPT !.kind = "AbortMultipartUpload", !.bucket = bucket,
                             !.key = key, !.uploadID = uploadID])
    /\ LET dir == multipartDirOf(bucket, uploadID)
       IN  Step(p, "idle", [NoLoc EXCEPT !.dir = dir], Fail("nil"),
                RemoveAllDirs(dir), RemoveAllFiles(dir), data)

\* the key a metadata file names: the last line that starts with "key="
RECURSIVE MetadataKey(_, _)
MetadataKey(lines, key) ==
    IF lines = <<>> THEN key
    ELSE MetadataKey(Tail(lines),
                     IF HasPrefix(Head(lines), <<"key=">>)
                     THEN TrimPrefix(Head(lines), <<"key=">>) ELSE key)

\* the loop over the entries: a directory whose metadata file reads is an
\* upload
RECURSIVE UploadsLoop(_, _)
UploadsLoop(entries, uploads) ==
    IF entries = <<>> THEN uploads
    ELSE LET entry == Head(entries)
             metaFile == entry \o <<"metadata">>
         IN  IF ~IsDir(entry) \/ ~IsFile(metaFile)
             THEN UploadsLoop(Tail(entries), uploads)
             ELSE UploadsLoop(Tail(entries),
                              Append(uploads,
                                     [UploadID |-> <<entry[Len(entry)]>>,
                                      Key |-> MetadataKey(Split(data[files[metaFile]], "\n"),
                                                          <<>>)]))

ListMultipartUploads(p, bucket) ==
    /\ Begin(p, [NoOp EXCEPT !.kind = "ListMultipartUploads", !.bucket = bucket])
    /\ LET multipartRoot == Join(<<rootPath, <<".multipart">>, bucket>>)
           err == ReadDirErr(multipartRoot)
       IN  Step(p, "idle", [NoLoc EXCEPT !.dir = multipartRoot],
                IF err # "nil" /\ ~IsNotExist(err) THEN Fail(err)
                ELSE [NoRes EXCEPT !.err = "nil",
                                   !.data = IF err # "nil" THEN <<>>
                                            ELSE UploadsLoop(ReadDir(multipartRoot), <<>>)],
                dirs, files, data)

\* time passes between two readings of the clock
Tick ==
    /\ now < MaxClock
    /\ now' = now + 1
    /\ UNCHANGED <<dirs, files, data, pc, op, loc, res, nops,
                   stable, partBody, upl, opened, late, view, seen, before, deleted, req, resp>>

(***************************************************************************)
(* strings, net/url and sort over token sequences.                         *)
(***************************************************************************)
Space == {" ", "\t", "\n", "\r"}

\* strings.TrimSpace
RECURSIVE TrimLeft(_)
TrimLeft(s) == IF s # <<>> /\ Head(s) \in Space THEN TrimLeft(Tail(s)) ELSE s
RECURSIVE TrimRight(_)
TrimRight(s) ==
    IF s # <<>> /\ s[Len(s)] \in Space THEN TrimRight(SubSeq(s, 1, Len(s) - 1)) ELSE s
TrimSpace(s) == TrimRight(TrimLeft(s))

\* strings.SplitN(s, sep, 2), and strings.Cut
SplitN2(s, sep) ==
    IF \A i \in 1..Len(s) : s[i] # sep THEN <<s>>
    ELSE LET i == CHOOSE n \in 1..Len(s) :
                    s[n] = sep /\ \A j \in 1..(n - 1) : s[j] # sep
         IN  <<SubSeq(s, 1, i - 1), SubSeq(s, i + 1, Len(s))>>

\* strings.ToLower on the names that are not lower case already
ToLower(name) ==
    IF name = "Host" THEN "host"
    ELSE IF name = "X-Amz-Date" THEN "x-amz-date"
    ELSE IF name = "X-Amz-Content-Sha256" THEN "x-amz-content-sha256"
    ELSE IF name = "X-Amz-Meta-A" THEN "x-amz-meta-a"
    ELSE IF name = "Authorization" THEN "authorization"
    ELSE name

\* url.QueryUnescape ("+" is a space in a query)
QueryUnescape(s) == [i \in 1..Len(s) |-> IF s[i] = "+" THEN " " ELSE PctDecoded(s[i])]

\* url.QueryEscape: the unreserved characters stay, a space becomes "+"
QueryEscape(s) ==
    [i \in 1..Len(s) |-> IF s[i] = " " THEN "+"
                         ELSE IF s[i] = "/" THEN "%2F"
                         ELSE IF s[i] = "=" THEN "%3D"
                         ELSE IF s[i] = "&" THEN "%26"
                         ELSE s[i]]

\* the strings the server sorts, in the byte order sort.Strings uses
ByteOrder == <<"1", "2", "3", "J", "a", "b", "host", "k", "max-keys", "partNumber",
               "uploadId", "uploads", "x-amz-content-sha256", "x-amz-date",
               "x-amz-meta-a">>
Rank(str) == CHOOSE i \in 1..Len(ByteOrder) : ByteOrder[i] = str

\* sort.Strings on a sequence of strings
RECURSIVE SortStrings(_)
SortStrings(s) ==
    IF s = <<>> THEN <<>>
    ELSE LET i == CHOOSE n \in 1..Len(s) :
                    \A j \in 1..Len(s) : Rank(Flat(s[n])) <= Rank(Flat(s[j]))
         IN  <<s[i]>> \o SortStrings(SubSeq(s, 1, i - 1) \o SubSeq(s, i + 1, Len(s)))

\* url.ParseQuery: the pairs of the query in the order sent, unescaped; a
\* segment that is empty or holds a semicolon is dropped
ParseQuery(query) ==
    LET segs == SelectSeq(Split(query, "&"),
                          LAMBDA g : g # <<>> /\ \A i \in 1..Len(g) : g[i] # ";")
    IN  [i \in 1..Len(segs) |->
            LET kv == SplitN2(segs[i], "=")
            IN  [k |-> QueryUnescape(kv[1]),
                 v |-> IF Len(kv) = 2 THEN QueryUnescape(kv[2]) ELSE <<>>]]

\* the keys of url.Values, each once
RECURSIVE QueryKeys(_)
QueryKeys(pairs) ==
    IF pairs = <<>> THEN <<>>
    ELSE LET rest == QueryKeys(SubSeq(pairs, 1, Len(pairs) - 1))
             k == pairs[Len(pairs)].k
         IN  IF \E i \in 1..Len(rest) : rest[i] = k THEN rest ELSE Append(rest, k)

(***************************************************************************)
(* internal/auth: the V4 signature verifier.                               *)
(***************************************************************************)
\* config.Auth.AccessKey and SecretKey
AccessKey == "porterfs"
SecretKey == "porterfs"

\* crypto/sha256 and crypto/hmac: symbolic and injective; encoding/hex
sha256Hash(str) == "sha256{" \o str \o "}"
hmacSHA256(key, str) == "hmac{" \o key \o "|" \o str \o "}"
HexEncode(bytes) == "hex{" \o bytes \o "}"

\* r.Header.Get(name): the name is looked up whatever its case
HeaderGet(r, name) ==
    IF ToLower(name) \in DOMAIN r.Header THEN r.Header[ToLower(name)] ELSE <<>>

getSigningKey(secretKey, dateStamp, region, service) ==
    hmacSHA256(hmacSHA256(hmacSHA256(hmacSHA256("AWS4" \o secretKey, dateStamp),
                                     region), service), "aws4_request")

\* the "k=v" parts of the canonical query: the keys sorted, the values of a
\* key in the order sent
RECURSIVE QueryParts(_, _)
QueryParts(keys, pairs) ==
    IF keys = <<>> THEN <<>>
    ELSE LET mine == SelectSeq(pairs, LAMBDA kv : kv.k = Head(keys))
         IN  [i \in 1..Len(mine) |->
                 QueryEscape(mine[i].k) \o <<"=">> \o QueryEscape(mine[i].v)]
                \o QueryParts(Tail(keys), pairs)

CreateCanonicalRequest(r, signedHeaders) ==
    LET method == <<r.Method>>
        uri == IF URLPath(r) = <<>> THEN <<"/">> ELSE URLPath(r)
        pairs == ParseQuery(r.RawQuery)
        query == IF r.RawQuery # <<>>
                 THEN JoinStr(QueryParts(SortStrings(QueryKeys(pairs)), pairs), "&")
                 ELSE <<>>
        headerNames == SortStrings(Split(signedHeaders, ";"))
        canonicalHeaders ==
            [i \in 1..Len(headerNames) |->
                LET name == Flat(headerNames[i])
                    value == IF ToLower(name) = "host" THEN r.Host
                             ELSE HeaderGet(r, name)
                IN  <<ToLower(name), ":">> \o TrimSpace(value)]
        sent == HeaderGet(r, "X-Amz-Content-Sha256")
        payloadHash == IF Flat(sent) = "" THEN <<"UNSIGNED-PAYLOAD">> ELSE sent
    IN  method \o <<"\n">> \o uri \o <<"\n">> \o query \o <<"\n">>
            \o JoinStr(canonicalHeaders, "\n") \o <<"\n", "\n">>
            \o signedHeaders \o <<"\n">> \o payloadHash

calculateSignature(r, credential, signedHeaders) ==
    LET canonicalRequest == Flat(CreateCanonicalRequest(r, signedHeaders))
        credParts == Split(credential, "/")
        dateStamp == Flat(credParts[2])
        region == Flat(credParts[3])
        service == Flat(credParts[4])
        credentialScope == dateStamp \o "/" \o region \o "/" \o service
                              \o "/aws4_request"
        amzDate == Flat(HeaderGet(r, "X-Amz-Date"))
        stringToSign == "AWS4-HMAC-SHA256" \o "\n" \o amzDate \o "\n"
                           \o credentialScope \o "\n" \o sha256Hash(canonicalRequest)
        signingKey == getSigningKey(SecretKey, dateStamp, region, service)
    IN  HexEncode(hmacSHA256(signingKey, stringToSign))

\* the component of the Authorization header that starts with prefix: the
\* last one, when several do
Component(components, prefix) ==
    LET mine == SelectSeq(components,
                          LAMBDA c : HasPrefix(TrimSpace(c), <<prefix>>))
    IN  IF mine = <<>> THEN <<>>
        ELSE TrimPrefix(TrimSpace(mine[Len(mine)]), <<prefix>>)

\* the comparison of the signature sent with the signature computed
SignatureMismatch(sent, expected) == sent # expected

validateV4Signature(r, authHeader) ==
    LET parts == SplitN2(authHeader, " ")
        components == Split(parts[2], ",")
        credentialPart == Component(components, "Credential=")
        signaturePart == Component(components, "Signature=")
        signedHeadersPart == Component(components, "SignedHeaders=")
        credParts == Split(credentialPart, "/")
    IN  IF Len(parts) # 2 THEN "invalid authorization header format"
        ELSE IF Flat(credentialPart) = "" \/ Flat(signaturePart) = ""
                \/ Flat(signedHeadersPart) = ""
        THEN "missing required authorization components"
        ELSE IF Len(credParts) # 5 THEN "invalid credential format"
        ELSE IF Flat(credParts[1]) # AccessKey THEN "invalid access key"
        ELSE IF SignatureMismatch(Flat(signaturePart),
                    calculateSignature(r, credentialPart, signedHeadersPart))
        THEN "signature mismatch"
        ELSE "nil"

Authenticate(r) ==
    LET authHeader == HeaderGet(r, "Authorization")
    IN  IF Flat(authHeader) = "" THEN "missing authorization header"
        ELSE IF ~HasPrefix(authHeader, <<"AWS4-HMAC-SHA256">>)
        THEN "unsupported authorization method"
        ELSE validateV4Signature(r, authHeader)

(***************************************************************************)
(* The initial state: the storage root exists and is empty                 *)
(* (NewLocalStorage); outside it the host keeps a file of its own.         *)
(***************************************************************************)
HostFile == <<"etc", "passwd">>
HostData == <<"host">>

InitWith(budget) ==
    /\ dirs = {<<>>, Root, Dir(HostFile)}
    /\ files = (HostFile :> 1)
    /\ data = (1 :> HostData)
    /\ now = 1
    /\ pc = [p \in Procs |-> "idle"]
    /\ op = [p \in Procs |-> NoOp]
    /\ loc = [p \in Procs |-> NoLoc]
    /\ res = [p \in Procs |-> NoRes]
    /\ nops = budget
    /\ stable = <<>>
    /\ partBody = <<>>
    /\ upl = <<>>
    /\ opened = {}
    /\ late = [p \in Procs |-> FALSE]
    /\ view = [p \in Procs |-> {}]
    /\ seen = [p \in Procs |-> {}]
    /\ before = [p \in Procs |-> <<>>]
    /\ deleted = {}
    /\ req = NoReq
    /\ resp = NoResp

Init == InitWith(MaxOps)

(***************************************************************************)
(* What the clients send.                                                  *)
(***************************************************************************)
Bucket == <<"b">>
SidecarBucket == <<".multipart">>
PlainKey == <<"k">>
NestedKey == <<"d", "/", "k">>
EscapeKey == <<"..", "/", "..", "/", "etc", "/", "passwd">>
\* the key that, in the bucket named .multipart, names a part file of an
\* upload of Bucket
SidecarKey(t, n) == <<"b", "/", ToString(t), "/", PartName(n)>>
SidecarKeys == {SidecarKey(t, n) : t \in 1..MaxClock, n \in {1}}
\* the key that, in Bucket, names a part file of an upload of Bucket
SelfKey(t, n) == <<"..", "/", ".multipart", "/">> \o SidecarKey(t, n)
SelfKeys == {SelfKey(t, n) : t \in {1}, n \in {1}}

Buckets == {Bucket, SidecarBucket}
Keys == {PlainKey, NestedKey, EscapeKey}
UploadIDs == {UploadIDAt(t) : t \in 1..MaxClock}
PartNumbers == 1..MaxPart
PartBodies == {Pattern("x", 1), Pattern("y", MaxBody)}

\* the part lists of a completion request: every order of every set of parts
RECURSIVE Perms(_)
Perms(S) ==
    IF S = {} THEN {<<>>}
    ELSE UNION {{<<n>> \o t : t \in Perms(S \ {n})} : n \in S}
PartLists ==
    {[i \in 1..Len(ns) |-> [PartNumber |-> ns[i], ETag |-> <<>>]] :
        ns \in UNION {Perms(S) : S \in (SUBSET PartNumbers) \ {{}}}}

(***************************************************************************)
(* Spec: one client that waits for the reply to each request before it     *)
(* sends the next one.                                                     *)
(***************************************************************************)
ObjectSteps(p) ==
    \/ PutObject_Create(p)
    \/ PutObject_Copy(p)
    \/ GetObject_Stat(p)
    \/ GetObject_Read(p)

MultipartSteps(p) ==
    \/ InitMultipartUpload_WriteFile(p)
    \/ UploadPart_Create(p)
    \/ UploadPart_Copy(p)
    \/ CompleteMultipartUpload_MkdirAll(p)
    \/ CompleteMultipartUpload_Create(p)
    \/ CompleteMultipartUpload_OpenPart(p)
    \/ CompleteMultipartUpload_CopyPart(p)
    \/ CompleteMultipartUpload_RemoveAll(p)

ObjectCalls(p) ==
    \/ \E b \in Buckets : CreateBucket(p, b) /\ UNCHANGED httpVars
    \/ \E b \in Buckets : DeleteBucket(p, b) /\ UNCHANGED httpVars
    \/ \E b \in Buckets, k \in Keys, body \in Bodies : PutObject_MkdirAll(p, b, k, body)
    \/ \E b \in Buckets, k \in Keys : GetObject_Open(p, b, k, <<>>)
    \/ \E b \in Buckets, k \in Keys : HeadObject(p, b, k)
    \/ \E b \in Buckets, k \in Keys : DeleteObject(p, b, k)

Next ==
    \E p \in SeqProcs : ObjectCalls(p) \/ ObjectSteps(p)

Spec == Init /\ [][Next]_vars

(***************************************************************************)
(* SpecMP: one client that uses the multipart calls, and the object calls  *)
(* on the bucket named .multipart.                                         *)
(***************************************************************************)
MultipartCalls(p, keys) ==
    \/ InitMultipartUpload_MkdirAll(p, Bucket, PlainKey)
    \/ \E id \in UploadIDs, n \in PartNumbers, body \in PartBodies :
          UploadPart_Stat(p, Bucket, PlainKey, id, n, body)
    \/ \E k \in keys, id \in UploadIDs, parts \in PartLists :
          CompleteMultipartUpload_Stat(p, Bucket, k, id, parts)
    \/ \E id \in UploadIDs : AbortMultipartUpload(p, Bucket, PlainKey, id)

SidecarCalls(p) ==
    \/ \E k \in SidecarKeys, body \in PartBodies :
          PutObject_MkdirAll(p, SidecarBucket, k, body)
    \/ \E k \in SidecarKeys : GetObject_Open(p, SidecarBucket, k, <<>>)
    \/ \E k \in SidecarKeys : HeadObject(p, SidecarBucket, k)

InitMP == InitWith(MaxOps + 1)

NextMP ==
    \/ Tick
    \/ \E p \in SeqProcs :
          \/ MultipartCalls(p, {PlainKey} \cup SelfKeys)
          \/ MultipartSteps(p)
          \/ SidecarCalls(p)
          \/ ObjectSteps(p)

SpecMP == InitMP /\ [][NextMP]_vars

(***************************************************************************)
(* SpecPutGet: two clients that put and get one key at the same time.      *)
(***************************************************************************)
NextPutGet ==
    \E p \in Procs :
        \/ \E body \in Bodies : PutObject_MkdirAll(p, Bucket, PlainKey, body)
        \/ GetObject_Open(p, Bucket, PlainKey, <<>>)
        \/ ObjectSteps(p)

SpecPutGet == Init /\ [][NextPutGet]_vars

(***************************************************************************)
(* SpecComplete: two clients that use the multipart calls on one key at    *)
(* the same time.                                                          *)
(***************************************************************************)
NextComplete ==
    \E p \in Procs :
        \/ MultipartCalls(p, {PlainKey})
        \/ MultipartSteps(p)

SpecComplete == InitMP /\ [][NextComplete]_vars

(***************************************************************************)
(* SpecAssemble: one client that puts an object and then assembles an      *)
(* upload over it, listing each part with an etag.                         *)
(***************************************************************************)
\* the etags a client may list: those UploadPart returns for the part bodies
ETags == {MD5Hex(body) : body \in PartBodies}

ETagPartLists ==
    UNION {{[i \in 1..Len(parts) |-> [PartNumber |-> parts[i].PartNumber,
                                       ETag |-> etags[i]]] :
               etags \in [1..Len(parts) -> ETags]} : parts \in PartLists}

NextAssemble ==
    \/ Tick
    \/ \E p \in SeqProcs :
          \/ \E body \in PartBodies : PutObject_MkdirAll(p, Bucket, PlainKey, body)
          \/ GetObject_Open(p, Bucket, PlainKey, <<>>)
          \/ InitMultipartUpload_MkdirAll(p, Bucket, PlainKey)
          \/ \E id \in UploadIDs, n \in PartNumbers, body \in PartBodies :
                UploadPart_Stat(p, Bucket, PlainKey, id, n, body)
          \/ \E id \in UploadIDs, parts \in ETagPartLists :
                CompleteMultipartUpload_Stat(p, Bucket, PlainKey, id, parts)
          \/ ObjectSteps(p)
          \/ MultipartSteps(p)

SpecAssemble == InitMP /\ [][NextAssemble]_vars

(***************************************************************************)
(* SpecRange: one client that puts an object and gets ranges of it.        *)
(***************************************************************************)
\* one end of a range as a client writes it: nothing, or a numeral
RangeEnds == {<<>>} \cup {<<ToString(n)>> : n \in Numerals}

\* "bytes=a-b", "bytes=a-", "bytes=-n" and "bytes=-"; two ranges in one
\* header; a signed numeral; another unit; no unit; a word for a number
RangeHeaders ==
    {<<"bytes=">> \o a \o <<"-">> \o b : a, b \in RangeEnds}
    \cup {<<"bytes=", "0", "-", "0", ",", "1", "-", "1">>,
           <<"bytes=", "+", "0", "-", "0">>,
           <<"items=", "0", "-", "0">>,
           <<"invalid", "-", "range">>,
           <<"bytes=", "x", "-", "0">>}

NextRange ==
    \E p \in SeqProcs :
        \/ \E body \in Bodies : PutObject_MkdirAll(p, Bucket, PlainKey, body)
        \/ \E h \in RangeHeaders \cup {<<>>} : GetObject_Open(p, Bucket, PlainKey, h)
        \/ ObjectSteps(p)

SpecRange == Init /\ [][NextRange]_vars

(***************************************************************************)
(* SpecDelete: one client that puts, gets and deletes the objects of one   *)
(* bucket, some under keys that hold a "/", and deletes the bucket.        *)
(***************************************************************************)
DirKey == <<"d">>
DeleteKeys == {PlainKey, DirKey, NestedKey}
DeleteBodies == {Pattern("x", 1)}

InitDelete == InitWith(MaxOps + 2)

NextDelete ==
    \E p \in SeqProcs :
        \/ CreateBucket(p, Bucket) /\ UNCHANGED httpVars
        \/ DeleteBucket(p, Bucket) /\ UNCHANGED httpVars
        \/ ListBuckets(p)
        \/ \E k \in DeleteKeys, body \in DeleteBodies :
              PutObject_MkdirAll(p, Bucket, k, body)
        \/ \E k \in DeleteKeys : GetObject_Open(p, Bucket, k, <<>>)
        \/ \E k \in DeleteKeys : DeleteObject(p, Bucket, k)
        \/ ObjectSteps(p)

SpecDelete == InitDelete /\ [][NextDelete]_vars

(***************************************************************************)
(* SpecBuckets: one client that creates, deletes and lists buckets, puts   *)
(* an object and uses the multipart calls.                                 *)
(***************************************************************************)
NextBuckets ==
    \/ Tick
    \/ \E p \in SeqProcs :
          \/ \E b \in Buckets : CreateBucket(p, b) /\ UNCHANGED httpVars
          \/ \E b \in Buckets : DeleteBucket(p, b) /\ UNCHANGED httpVars
          \/ ListBuckets(p)
          \/ \E body \in DeleteBodies : PutObject_MkdirAll(p, Bucket, PlainKey, body)
          \/ PutObject_Create(p)
          \/ PutObject_Copy(p)
          \/ MultipartCalls(p, {PlainKey})
          \/ MultipartSteps(p)

SpecBuckets == Init /\ [][NextBuckets]_vars

(***************************************************************************)
(* SpecList: one client that puts objects, some under keys that hold a     *)
(* "/", lists the bucket, and gets and heads its keys.                     *)
(***************************************************************************)
\* the keys, in lexicographic order
KeyOrder == <<<<"a", "/", "x">>, <<"a", "/", "y">>, <<"b", "/", "z">>, <<"j">>, <<"k">>>>
ListKeys == {KeyOrder[i] : i \in 1..Len(KeyOrder)}
ListPrefixes == {<<>>, <<"a", "/">>, <<"j">>}
\* max-keys as a client sends it, and the 1000 of a request without it
DefaultMaxKeys == 1000
MaxKeysSent == {1, DefaultMaxKeys}

NextList ==
    \E p \in SeqProcs :
        \/ \E k \in ListKeys, body \in DeleteBodies :
              PutObject_MkdirAll(p, Bucket, k, body)
        \/ \E prefix \in ListPrefixes, maxKeys \in MaxKeysSent :
              ListObjects(p, Bucket, prefix, maxKeys)
        \/ \E k \in ListKeys : GetObject_Open(p, Bucket, k, <<>>)
        \/ \E k \in ListKeys : HeadObject(p, Bucket, k)
        \/ ObjectSteps(p)

SpecList == Init /\ [][NextList]_vars

(***************************************************************************)
(* SpecPutSize: one client that puts an object from a stream that may end  *)
(* with an error, or deliver another length than the size it declared.     *)
(***************************************************************************)
Sizes == {0 - 1} \cup (0..MaxBody)
ReadErrs == {"nil", "unexpected EOF"}

NextPutSize ==
    \E p \in SeqProcs :
        \/ \E body \in Bodies, size \in Sizes, readErr \in ReadErrs :
              PutObject(p, Bucket, PlainKey, body, size, readErr)
        \/ GetObject_Open(p, Bucket, PlainKey, <<>>)
        \/ ObjectSteps(p)

SpecPutSize == Init /\ [][NextPutSize]_vars

(***************************************************************************)
(* The client of cmd/test-client: the AWS SDK signs each request as AWS     *)
(* Signature Version 4 prescribes, with the configured credentials, the    *)
(* region us-east-1 and the service s3.                                    *)
(***************************************************************************)
\* RFC 3986 percent-encoding of a path ("/" stays) or of a query key or value
URIEncode(s) == [i \in 1..Len(s) |-> IF s[i] = " " THEN "%20" ELSE s[i]]

\* a header value trimmed, its inner runs of spaces collapsed to one space
RECURSIVE CollapseSpaces(_)
CollapseSpaces(s) ==
    IF Len(s) < 2 THEN s
    ELSE IF s[1] \in Space /\ s[2] \in Space THEN CollapseSpaces(Tail(s))
    ELSE <<s[1]>> \o CollapseSpaces(Tail(s))

\* the pairs of a query sorted by encoded key, ties broken by encoded value
RECURSIVE SortPairs(_)
SortPairs(pairs) ==
    IF pairs = <<>> THEN <<>>
    ELSE LET Before(x, y) ==
                 \/ Rank(Flat(x.k)) < Rank(Flat(y.k))
                 \/ x.k = y.k /\ Rank(Flat(x.v)) <= Rank(Flat(y.v))
             i == CHOOSE n \in 1..Len(pairs) :
                    \A j \in 1..Len(pairs) : j = n \/ Before(pairs[n], pairs[j])
         IN  <<pairs[i]>>
                \o SortPairs(SubSeq(pairs, 1, i - 1) \o SubSeq(pairs, i + 1, Len(pairs)))

SigV4CanonicalRequest(r, signedHeaders) ==
    LET pairs == SortPairs(ParseQuery(r.RawQuery))
        query == JoinStr([i \in 1..Len(pairs) |->
                             URIEncode(pairs[i].k) \o <<"=">> \o URIEncode(pairs[i].v)],
                         "&")
        names == SortStrings(Split(signedHeaders, ";"))
        headers == [i \in 1..Len(names) |->
                       LET name == ToLower(Flat(names[i]))
                           value == IF name = "host" THEN r.Host ELSE r.Header[name]
                       IN  <<name, ":">> \o CollapseSpaces(TrimSpace(value))]
    IN  <<r.Method, "\n">> \o URIEncode(PathUnescape(r.RawPath)) \o <<"\n">>
            \o query \o <<"\n">> \o JoinStr(headers, "\n") \o <<"\n", "\n">>
            \o signedHeaders \o <<"\n">> \o r.Header["x-amz-content-sha256"]

DateStamp == "20230101"
SignedHeaderNames ==
    <<"host", ";", "x-amz-content-sha256", ";", "x-amz-date", ";", "x-amz-meta-a">>

SigV4Signature(r) ==
    HexEncode(hmacSHA256(
        getSigningKey(SecretKey, DateStamp, "us-east-1", "s3"),
        "AWS4-HMAC-SHA256" \o "\n" \o Flat(r.Header["x-amz-date"]) \o "\n"
            \o DateStamp \o "/us-east-1/s3/aws4_request" \o "\n"
            \o sha256Hash(Flat(SigV4CanonicalRequest(r, SignedHeaderNames)))))

Credential(accessKey, terminator) ==
    <<"Credential=", accessKey, "/", DateStamp, "/", "us-east-1", "/", "s3">>
        \o terminator

AuthorizationOf(credential, signature) ==
    <<"AWS4-HMAC-SHA256", " ">> \o credential
        \o <<",", " ", "SignedHeaders=">> \o SignedHeaderNames
        \o <<",", " ", "Signature=", signature>>

\* the request as the client sends it
Signed(r) ==
    [r EXCEPT !.Header["authorization"] =
        AuthorizationOf(Credential(AccessKey, <<"/", "aws4_request">>),
                        SigV4Signature(r))]

Methods == {"PUT", "DELETE"}
RawPaths == {<<"/", "b">>, <<"/", "a", "%20", "b">>}
RawQueries == {<<>>, <<"a", "=", "1", "&", "b", "=", "2">>, <<"k", "=", "%4a">>}
PayloadHashes == {<<"UNSIGNED-PAYLOAD">>, <<"H">>}

Unsigned ==
    {[Method |-> m, RawPath |-> path, RawQuery |-> q, Host |-> <<"h">>,
      Header |-> [h \in HeaderNames |->
                    IF h = "authorization" THEN <<>>
                    ELSE IF h = "x-amz-date" THEN <<"20230101T000000Z">>
                    ELSE IF h = "x-amz-content-sha256" THEN ph
                    ELSE <<"v">>],
      Body |-> <<>>] :
        m \in Methods, path \in RawPaths, q \in RawQueries, ph \in PayloadHashes}

\* what a request signed by the client becomes when one thing of it is changed
\* on its way
Changed(r) ==
    {[r |-> r, changed |-> "none"]}
    \cup {[r |-> [r EXCEPT !.Header["authorization"] =
                      SubSeq(@, 1, Len(@) - 1) \o <<"0">>],
           changed |-> "signature"]}
    \cup {[r |-> [r EXCEPT !.Header["x-amz-content-sha256"] = ph],
           changed |-> "payload hash"] : ph \in (PayloadHashes \cup {<<>>}) \ {r.Header["x-amz-content-sha256"]}}
    \cup {[r |-> [r EXCEPT !.Method = m], changed |-> "method"] :
             m \in Methods \ {r.Method}}
    \cup {[r |-> [r EXCEPT !.RawPath = path], changed |-> "path"] :
             path \in RawPaths \ {r.RawPath}}
    \cup {[r |-> [r EXCEPT !.RawQuery = q], changed |-> "query"] :
             q \in (RawQueries \cup {<<"b", "=", "2", "&", "a", "=", "1">>,
                                     <<"k", "=", "%4A">>}) \ {r.RawQuery}}
    \cup {[r |-> [r EXCEPT !.Header["x-amz-meta-a"] = v], changed |-> "header"] :
             v \in {<<"w">>, <<"v", " ">>}}
    \cup {[r |-> [r EXCEPT !.Header["authorization"] = a],
           changed |-> "authorization"] :
             a \in {<<>>,
                    <<"Basic", " ", "dGVzdDp0ZXN0">>,
                    <<"AWS4-HMAC-SHA256">>,
                    <<"AWS4-HMAC-SHA256", " ", "Credential=", "invalid">>,
                    AuthorizationOf(Credential(AccessKey, <<>>), "0"),
                    AuthorizationOf(Credential("wrong-key", <<"/", "aws4_request">>),
                                    "0"),
                    <<"AWS4-HMAC-SHA256", "X">>,
                    <<"AWS4-HMAC-SHA256", "X">> \o Tail(r.Header["authorization"])}}

Send(r, changed) ==
    /\ req.phase \notin {"sent", "handling"}
    /\ nops > 0
    /\ req' = [phase |-> "sent", r |-> r, changed |-> changed]
    /\ resp' = NoResp
    /\ UNCHANGED <<dirs, files, data, now, pc, op, loc, res, nops,
                   stable, partBody, upl, opened, late, view, seen, before, deleted>>

(***************************************************************************)
(* internal/server and internal/handlers: the S3 routes of a bucket behind *)
(* Authenticator.AuthMiddleware.                                           *)
(***************************************************************************)
\* r.URL.Query().Get(key): the first value sent under the key, "" for none
QueryGet(r, key) ==
    LET mine == SelectSeq(ParseQuery(r.RawQuery), LAMBDA kv : kv.k = <<key>>)
    IN  IF mine = <<>> THEN <<>> ELSE mine[1].v

\* the path below the leading "/": the bucket, and the object below it
PathRest(r) == IF URLPath(r) = <<>> THEN <<>> ELSE Tail(URLPath(r))
PathKind(r) ==
    IF PathRest(r) = <<>> THEN "root"
    ELSE IF Len(SplitN2(PathRest(r), "/")) = 1 \/ SplitN2(PathRest(r), "/")[2] = <<>>
    THEN "bucket"
    ELSE "object"

\* chi.URLParam(r, "bucket") on the route /{bucket}
URLParamBucket(r) == Tail(URLPath(r))

\* chi.URLParam(r, "bucket") and chi.URLParam(r, "object") on the route
\* /{bucket}/{object:.*}
URLParam(r, name) ==
    IF name = "bucket" THEN SplitN2(PathRest(r), "/")[1]
    ELSE SplitN2(PathRest(r), "/")[2]

\* the S3 routes: the handler the router and the closures registered on it
\* invoke for a request; "MethodNotAllowed" is the http.Error of the POST
\* closure, "" a method no route of the path registers
Route(r) ==
    LET kind == PathKind(r)
        method == r.Method
    IN  IF kind = "root"
        THEN IF method = "GET" THEN "ListBuckets" ELSE ""
        ELSE IF kind = "bucket"
        THEN IF method = "GET"
             THEN IF QueryGet(r, "uploads") # <<>> THEN "ListMultipartUploads"
                  ELSE "ListObjects"
             ELSE IF method = "PUT" THEN "CreateBucket"
             ELSE IF method = "DELETE" THEN "DeleteBucket"
             ELSE ""
        ELSE IF method = "GET" THEN "GetObject"
        ELSE IF method = "PUT"
        THEN IF QueryGet(r, "uploadId") # <<>>
             THEN IF QueryGet(r, "partNumber") # <<>> THEN "UploadPart"
                  ELSE "CompleteMultipartUpload"
             ELSE "PutObject"
        ELSE IF method = "DELETE"
        THEN IF QueryGet(r, "uploadId") # <<>> THEN "AbortMultipartUpload"
             ELSE "DeleteObject"
        ELSE IF method = "HEAD" THEN "HeadObject"
        ELSE IF method = "POST"
        THEN IF QueryGet(r, "uploads") # <<>> THEN "InitiateMultipartUpload"
             ELSE "MethodNotAllowed"
        ELSE ""

\* a response written with no call of the storage engine
Answer(status, body) ==
    /\ req' = [req EXCEPT !.phase = "served"]
    /\ resp' = [status |-> status, body |-> body, err |-> "nil", next |-> TRUE]
    /\ nops' = nops - 1
    /\ UNCHANGED <<dirs, files, data, now, pc, op, loc, res,
                   stable, partBody, upl, opened, late, view, seen, before, deleted>>

\* Handler.CreateBucket
Handler_CreateBucket(p, r) ==
    /\ CreateBucket(p, URLParamBucket(r))
    /\ Http(p)

\* Handler.DeleteBucket
Handler_DeleteBucket(p, r) ==
    /\ DeleteBucket(p, URLParamBucket(r))
    /\ Http(p)

\* Handler.ListObjects, listObjectsV2 and listObjectsV1: max-keys counts when
\* it is a number above 0
MaxKeysOf(r) ==
    LET mk == ParseInt(QueryGet(r, "max-keys"))
    IN  IF QueryGet(r, "max-keys") # <<>> /\ mk.err = "nil" /\ mk.n > 0
        THEN mk.n ELSE DefaultMaxKeys

Handler_ListObjects(p, r) ==
    ListObjects(p, URLParamBucket(r), QueryGet(r, "prefix"), MaxKeysOf(r))

\* Handler.PutObject: contentLength is -1 for a request with no
\* Content-Length header
ContentLengthOf(r) ==
    LET cl == ParseInt(HeaderGet(r, "Content-Length"))
    IN  IF HeaderGet(r, "Content-Length") # <<>> /\ cl.err = "nil" THEN cl.n
        ELSE 0 - 1

Handler_PutObject(p, r) ==
    PutObject(p, URLParam(r, "bucket"), URLParam(r, "object"), r.Body,
              ContentLengthOf(r), "nil")

\* Handler.UploadPart
Handler_UploadPart(p, r) ==
    LET partNumber == ParseInt(QueryGet(r, "partNumber"))
    IN  IF partNumber.err # "nil" THEN Answer(400, "invalid partNumber\n")
        ELSE UploadPart_Stat(p, URLParam(r, "bucket"), URLParam(r, "object"),
                             QueryGet(r, "uploadId"), partNumber.n, r.Body)

\* xml.NewDecoder(r.Body).Decode(&req): a body is the CompleteMultipartUpload
\* element, with one token for each Part element, the PartNumber it holds
XMLDecode(body) ==
    IF /\ Len(body) >= 2
       /\ body[1] = "<CompleteMultipartUpload>"
       /\ body[Len(body)] = "</CompleteMultipartUpload>"
       /\ \A i \in 2..(Len(body) - 1) : IsNumeral(body[i])
    THEN [err |-> "nil",
          Parts |-> [i \in 1..(Len(body) - 2) |->
                        [PartNumber |-> NumeralValue(body[i + 1]), ETag |-> <<>>]]]
    ELSE [err |-> "EOF", Parts |-> <<>>]

\* Handler.CompleteMultipartUpload
Handler_CompleteMultipartUpload(p, r) ==
    LET decoded == XMLDecode(r.Body)
    IN  IF decoded.err # "nil" THEN Answer(400, "invalid request body\n")
        ELSE CompleteMultipartUpload_Stat(p, URLParam(r, "bucket"),
                                          URLParam(r, "object"),
                                          QueryGet(r, "uploadId"), decoded.Parts)

\* the router of the S3 routes
ServeHTTP(p, r) ==
    LET h == Route(r)
        bucket == URLParam(r, "bucket")
        object == URLParam(r, "object")
    IN  CASE h = "ListBuckets" -> ListBuckets(p)
          [] h = "ListObjects" -> Handler_ListObjects(p, r)
          [] h = "ListMultipartUploads" -> ListMultipartUploads(p, URLParamBucket(r))
          [] h = "CreateBucket" -> Handler_CreateBucket(p, r)
          [] h = "DeleteBucket" -> Handler_DeleteBucket(p, r)
          [] h = "GetObject" -> GetObject_Open(p, bucket, object, HeaderGet(r, "Range"))
          [] h = "PutObject" -> Handler_PutObject(p, r)
          [] h = "DeleteObject" -> DeleteObject(p, bucket, object)
          [] h = "HeadObject" -> HeadObject(p, bucket, object)
          [] h = "InitiateMultipartUpload" -> InitMultipartUpload_MkdirAll(p, bucket, object)
          [] h = "UploadPart" -> Handler_UploadPart(p, r)
          [] h = "CompleteMultipartUpload" -> Handler_CompleteMultipartUpload(p, r)
          [] h = "AbortMultipartUpload" ->
                AbortMultipartUpload(p, bucket, object, QueryGet(r, "uploadId"))
          [] h = "MethodNotAllowed" -> Answer(405, "Method not allowed\n")
          [] OTHER -> Answer(405, "")

\* the test of the middleware on what Authenticate returned
DeniedOnError(err) == err # "nil"
DeniedNever(err) == FALSE
Denied(err) == DeniedOnError(err)

\* the text of http.Error(w, "Unauthorized", http.StatusUnauthorized)
DenialFixed(err) == "Unauthorized"
DenialOfError(err) == err
DenialText(err) == DenialFixed(err)

AuthMiddleware(p) ==
    /\ req.phase = "sent"
    /\ LET err == Authenticate(req.r)
       IN  IF Denied(err)
           THEN /\ req' = [req EXCEPT !.phase = "served"]
                /\ resp' = [status |-> 401, body |-> DenialText(err) \o "\n",
                            err |-> err, next |-> FALSE]
                /\ nops' = nops - 1
                /\ UNCHANGED <<dirs, files, data, now, pc, op, loc, res,
                               stable, partBody, upl, opened, late, view, seen, before, deleted>>
           ELSE ServeHTTP(p, req.r)

\* a response one of the routes outside the middleware writes with no call
\* of the storage engine
DiagAnswer(status, body) ==
    /\ req' = [req EXCEPT !.phase = "served"]
    /\ resp' = [NoResp EXCEPT !.status = status, !.body = body]
    /\ nops' = nops - 1
    /\ UNCHANGED <<dirs, files, data, now, pc, op, loc, res,
                   stable, partBody, upl, opened, late, view, seen, before, deleted>>

\* the router Server.ListenAndServe builds: GET /test and the routes of
\* /test-storage are registered on it without the middleware, every other
\* request goes to the S3 routes behind AuthMiddleware.  The closure of PUT
\* .../object/{object:.*} reads the whole body and passes its length as the
\* size
ListenAndServe(p) ==
    /\ req.phase = "sent"
    /\ LET r == req.r
           h == DiagRoute(r)
       IN  CASE h = "test" ->
                  DiagAnswer(200, "{\"status\": \"ok\", \"message\": \"PorterFS server is running\"}")
             [] h = "test-storage CreateBucket" ->
                  CreateBucket(p, DiagParam(r, "bucket")) /\ Http(p)
             [] h = "test-storage ListObjects" ->
                  ListObjects(p, DiagParam(r, "bucket"), <<>>, DefaultMaxKeys)
             [] h = "test-storage PutObject" ->
                  PutObject(p, DiagParam(r, "bucket"), DiagParam(r, "object"),
                            r.Body, Len(r.Body), "nil")
             [] h = "test-storage GetObject" ->
                  GetObject_Open(p, DiagParam(r, "bucket"), DiagParam(r, "object"), <<>>)
             [] OTHER -> AuthMiddleware(p)

NextAuth ==
    \/ \E r \in Unsigned : \E c \in Changed(Signed(r)) : Send(c.r, c.changed)
    \/ \E p \in SeqProcs : ListenAndServe(p)

SpecAuth == Init /\ [][NextAuth]_vars

(***************************************************************************)
(* SpecRoute: the server, holding a bucket with an object and an upload    *)
(* with one part, is sent one signed request of every method, path and     *)
(* query selector.                                                         *)
(***************************************************************************)
MaxRequests == 1

RouteTargets ==
    {<<"GET", <<"/">>>>}
    \cup {<<m, <<"/", "b">>>> : m \in {"GET", "PUT", "DELETE"}}
    \cup {<<m, <<"/", "b", "/", "k">>>> : m \in {"GET", "PUT", "DELETE", "HEAD", "POST"}}

RouteQueries ==
    {<<>>,
     <<"uploads">>,
     <<"uploads", "=">>,
     <<"uploads", "=", "1">>,
     <<"uploadId", "=", "1">>,
     <<"uploadId", "=", "1", "&", "partNumber", "=", "1">>,
     <<"uploadId", "=", "1", "&", "partNumber", "=", "x">>,
     <<"partNumber", "=", "1">>,
     <<"max-keys", "=", "1">>}

\* a body of one byte, and the XML of a completion that lists part 1
CompleteBody == <<"<CompleteMultipartUpload>", "1", "</CompleteMultipartUpload>">>
RouteBodies == {<<"x">>, CompleteBody}

RouteRequests ==
    {[Method |-> t[1], RawPath |-> t[2], RawQuery |-> q, Host |-> <<"h">>,
      Header |-> [h \in HeaderNames |->
                    IF h = "authorization" THEN <<>>
                    ELSE IF h = "x-amz-date" THEN <<"20230101T000000Z">>
                    ELSE IF h = "x-amz-content-sha256" THEN <<"UNSIGNED-PAYLOAD">>
                    ELSE <<"v">>],
      Body |-> body] :
        t \in RouteTargets, q \in RouteQueries, body \in RouteBodies}

\* the root after CreateBucket("b"), PutObject("b", "k", "x"),
\* InitMultipartUpload("b", "k") at time 1 and UploadPart of part 1, "x"
InitRoute ==
    /\ dirs = {<<>>, Root, Dir(HostFile), bucketPath(Bucket)}
                \cup Prefixes(multipartDirOf(Bucket, UploadIDAt(1)))
    /\ files = (HostFile :> 1) @@ (objectPath(Bucket, PlainKey) :> 2)
                @@ (metaFileOf(Bucket, UploadIDAt(1)) :> 3)
                @@ (partFileOf(Bucket, UploadIDAt(1), 1) :> 4)
    /\ data = (1 :> HostData) @@ (2 :> Pattern("x", 1))
                @@ (3 :> Metadata(Bucket, PlainKey, 1)) @@ (4 :> Pattern("x", 1))
    /\ now = MaxClock
    /\ pc = [p \in Procs |-> "idle"]
    /\ op = [p \in Procs |-> NoOp]
    /\ loc = [p \in Procs |-> NoLoc]
    /\ res = [p \in Procs |-> NoRes]
    /\ nops = MaxRequests
    /\ stable = (objectPath(Bucket, PlainKey) :> Pattern("x", 1))
    /\ partBody = (<<Bucket, UploadIDAt(1), 1>> :> Pattern("x", 1))
    /\ upl = (<<Bucket, UploadIDAt(1)>> :> "open")
    /\ opened = {<<Bucket, UploadIDAt(1), PlainKey>>}
    /\ late = [p \in Procs |-> FALSE]
    /\ view = [p \in Procs |-> {}]
    /\ seen = [p \in Procs |-> {}]
    /\ before = [p \in Procs |-> <<>>]
    /\ deleted = {}
    /\ req = NoReq
    /\ resp = NoResp

NextRoute ==
    \/ \E r \in RouteRequests : Send(Signed(r), "none")
    \/ \E p \in SeqProcs :
          \/ ListenAndServe(p)
          \/ ObjectSteps(p)
          \/ MultipartSteps(p)

SpecRoute == InitRoute /\ [][NextRoute]_vars

(***************************************************************************)
(* SpecUploads: one client initiates uploads for two keys of a bucket,     *)
(* uploads parts, completes and aborts uploads, and lists the uploads of   *)
(* the bucket.                                                             *)
(***************************************************************************)
OtherKey == <<"j">>
UploadKeys == {PlainKey, OtherKey}

NextUploads ==
    \/ Tick
    \/ \E p \in SeqProcs :
          \/ \E k \in UploadKeys : InitMultipartUpload_MkdirAll(p, Bucket, k)
          \/ \E k \in UploadKeys, id \in UploadIDs :
                UploadPart_Stat(p, Bucket, k, id, 1, Pattern("x", 1))
          \/ \E k \in UploadKeys, id \in UploadIDs :
                CompleteMultipartUpload_Stat(p, Bucket, k, id, <<[PartNumber |-> 1, ETag |-> <<>>]>>)
          \/ \E k \in UploadKeys, id \in UploadIDs :
                AbortMultipartUpload(p, Bucket, k, id)
          \/ ListMultipartUploads(p, Bucket)
          \/ MultipartSteps(p)

SpecUploads == InitMP /\ [][NextUploads]_vars

(***************************************************************************)
(* SpecAbort: the client of SpecUploads also puts an object, and aborts    *)
(* uploads under upload ids that hold ".." and "/" (the uploadId of the    *)
(* query string of a DELETE, passed on as it was sent).                    *)
(***************************************************************************)
EscapeIDs == {<<"..">>, <<"..", "/", "..", "/">> \o Bucket}

NextAbort ==
    \/ NextUploads
    \/ \E p \in SeqProcs :
          \/ \E id \in EscapeIDs : AbortMultipartUpload(p, Bucket, PlainKey, id)
          \/ PutObject_MkdirAll(p, Bucket, PlainKey, Pattern("x", 1))
          \/ PutObject_Create(p)
          \/ PutObject_Copy(p)

SpecAbort == InitMP /\ [][NextAbort]_vars

(***************************************************************************)
(* SpecKeys: one client puts, gets and deletes objects of a bucket under   *)
(* keys of which one is a "/"-prefix of another, and keys with an empty,   *)
(* a "." and a ".." segment.                                               *)
(***************************************************************************)
PrefixKey == <<"a">>
SegmentKeys ==
    {PrefixKey,
     <<"a", "/", "b">>,
     <<"a", "/", "/", "b">>,
     <<"a", "/", ".", "/", "b">>,
     <<"x", "/", "..", "/", "a">>}
KeyBodies == {Pattern("x", 1), Pattern("y", 1)}

NextKeys ==
    \E p \in SeqProcs :
        \/ \E k \in SegmentKeys, body \in KeyBodies :
              PutObject_MkdirAll(p, Bucket, k, body)
        \/ \E k \in SegmentKeys : GetObject_Open(p, Bucket, k, <<>>)
        \/ \E k \in SegmentKeys : DeleteObject(p, Bucket, k)
        \/ ObjectSteps(p)

SpecKeys == Init /\ [][NextKeys]_vars

(***************************************************************************)
(* SpecInit: two goroutines initiate uploads of a bucket, each for its own *)
(* key or both for one, upload parts and list the uploads, while the clock *)
(* advances between any two steps or does not.                             *)
(***************************************************************************)
NextInit ==
    \/ Tick
    \/ \E p \in Procs :
          \/ \E k \in UploadKeys : InitMultipartUpload_MkdirAll(p, Bucket, k)
          \/ InitMultipartUpload_WriteFile(p)
          \/ \E k \in UploadKeys, id \in UploadIDs, body \in KeyBodies :
                UploadPart_Stat(p, Bucket, k, id, 1, body)
          \/ UploadPart_Create(p)
          \/ UploadPart_Copy(p)
          \/ ListMultipartUploads(p, Bucket)

SpecInit == Init /\ [][NextInit]_vars

(***************************************************************************)
(* SpecCanonical: the server is sent signed GET requests with and without  *)
(* a path, with queries that repeat a key, with and without the header     *)
(* x-amz-content-sha256, and Authenticate builds the canonical request of  *)
(* each.                                                                   *)
(***************************************************************************)
CanonicalQueries ==
    {<<>>,
     <<"a", "=", "1", "&", "b", "=", "2">>,
     <<"b", "=", "2", "&", "a", "=", "1">>,
     <<"a", "=", "1", "&", "a", "=", "2">>,
     <<"a", "=", "2", "&", "a", "=", "1">>}

CanonicalRequests ==
    {[Method |-> "GET", RawPath |-> path, RawQuery |-> q, Host |-> <<"h">>,
      Header |-> [h \in HeaderNames |->
                    IF h = "authorization" THEN <<>>
                    ELSE IF h = "x-amz-date" THEN <<"20230101T000000Z">>
                    ELSE IF h = "x-amz-content-sha256" THEN ph
                    ELSE meta],
      Body |-> <<>>] :
        path \in {<<>>, <<"/">> \o Bucket}, q \in CanonicalQueries,
        ph \in PayloadHashes \cup {<<>>}, meta \in {<<"v">>, <<"v", " ">>}}

NextCanonical ==
    \/ \E r \in CanonicalRequests : Send(Signed(r), "none")
    \/ \E p \in SeqProcs : ListenAndServe(p)

SpecCanonical == Init /\ [][NextCanonical]_vars

(***************************************************************************)
(* SpecDiag: the server on an empty root is sent requests to the routes    *)
(* registered outside the middleware and to the S3 routes, each of them    *)
(* either signed by the client or with no Authorization header.            *)
(***************************************************************************)
TestBucket == <<"test">>

DiagTargets ==
    {<<"GET", <<"/", "test">>>>}
    \cup {<<m, <<"/", "test-storage", "/", "bucket", "/">> \o b>> :
             m \in {"POST", "GET"}, b \in {TestBucket, Bucket}}
    \cup {<<m, <<"/", "test-storage", "/", "bucket", "/">> \o TestBucket
                \o <<"/", "object", "/">> \o PlainKey>> : m \in {"PUT", "GET"}}
    \cup {<<"GET", <<"/">>>>}
    \cup {<<m, <<"/">> \o Bucket>> : m \in {"GET", "PUT", "DELETE"}}
    \cup {<<m, <<"/">> \o Bucket \o <<"/">> \o PlainKey>> : m \in {"GET", "PUT"}}

DiagRequests ==
    {[Method |-> t[1], RawPath |-> t[2], RawQuery |-> <<>>, Host |-> <<"h">>,
      Header |-> [h \in HeaderNames |->
                    IF h = "authorization" THEN <<>>
                    ELSE IF h = "x-amz-date" THEN <<"20230101T000000Z">>
                    ELSE IF h = "x-amz-content-sha256" THEN <<"UNSIGNED-PAYLOAD">>
                    ELSE <<"v">>],
      Body |-> <<"x">>] : t \in DiagTargets}

NextDiag ==
    \/ \E r \in DiagRequests : Send(Signed(r), "none")
    \/ \E r \in DiagRequests : Send(r, "authorization")
    \/ \E p \in SeqProcs :
          \/ ListenAndServe(p)
          \/ ObjectSteps(p)

SpecDiag == Init /\ [][NextDiag]_vars

(***************************************************************************)
(* The claims.                                                             *)
(***************************************************************************)
Returned(p, kind) == pc[p] = "idle" /\ op[p].kind = kind

RECURSIVE ConcatParts(_, _, _)
ConcatParts(bucket, uploadID, parts) ==
    IF parts = <<>> THEN <<>>
    ELSE partBody[<<bucket, uploadID, parts[1].PartNumber>>]
            \o ConcatParts(bucket, uploadID, Tail(parts))

PartsUploaded(bucket, uploadID, parts) ==
    /\ \A i, j \in 1..Len(parts) :
          parts[i].PartNumber = parts[j].PartNumber => i = j
    /\ \A i \in 1..Len(parts) :
          <<bucket, uploadID, parts[i].PartNumber>> \in DOMAIN partBody

\* C2: a CompleteMultipartUpload that succeeds on an open upload whose listed
\* parts were uploaded under distinct part numbers leaves at (bucket, key) an
\* object whose bytes are the bodies of the parts in the order listed.
C2_CompleteConcatenatesInListedOrder ==
    \A p \in SeqProcs :
        (/\ Returned(p, "CompleteMultipartUpload")
         /\ res[p].err = "nil"
         /\ ~late[p]
         /\ PartsUploaded(op[p].bucket, op[p].uploadID, op[p].parts))
            => Content(files, data, objectPath(op[p].bucket, op[p].key))
                   = <<"file">> \o ConcatParts(op[p].bucket, op[p].uploadID, op[p].parts)

\* C5: PutObject, GetObject, HeadObject and DeleteObject act on a path under
\* the storage root or are rejected with InvalidKey, and what the host keeps
\* outside the root is neither read, created, changed nor removed.
C5_NoPathOutsideRoot ==
    /\ \A path \in DOMAIN files : UnderRoot(path) \/ path = HostFile
    /\ Content(files, data, HostFile) = <<"file">> \o HostData
    /\ \A p \in SeqProcs :
          (/\ pc[p] = "idle"
           /\ op[p].kind \in {"PutObject", "GetObject", "HeadObject", "DeleteObject"})
              => \/ UnderRoot(objectPath(op[p].bucket, op[p].key))
                 \/ res[p].err = "InvalidKey"

\* what a GetObject that has returned gave its caller
Got(p) ==
    IF res[p].err = "nil" THEN <<"file">> \o res[p].data
    ELSE IF res[p].err = "ErrNotFound" THEN <<"absent">>
    ELSE <<"error", res[p].err>>

\* C6: a GetObject that runs while PutObject calls replace its key returns
\* the whole bytes stored when it was called or the whole body of one of
\* those PutObject calls, never an empty, truncated or mixed view.
C6_GetSeesOldOrNew ==
    \A p \in Procs :
        (Returned(p, "GetObject") /\ <<"any">> \notin view[p]) => Got(p) \in view[p]

Overlapped(p, q) == p \in seen[q] /\ q \in seen[p]

\* C7: when two PutObject calls on one key ran at the same time and both
\* returned nil, the object stored is the whole body of one of them.
C7_ConcurrentPutsLastWriterWins ==
    \A p, q \in Procs :
        (/\ p # q
         /\ Overlapped(p, q)
         /\ Returned(p, "PutObject") /\ res[p].err = "nil"
         /\ Returned(q, "PutObject") /\ res[q].err = "nil"
         /\ loc[p].path = loc[q].path)
            => Content(files, data, loc[p].path)
                   \in {<<"file">> \o op[p].body, <<"file">> \o op[q].body}

\* C8: of two CompleteMultipartUpload calls on one upload that ran at the
\* same time, at most one returns nil, and the other returns the error of an
\* upload that is not found.
C8_AtMostOneCompleteSucceeds ==
    \A p, q \in Procs :
        (/\ p # q
         /\ Overlapped(p, q)
         /\ Returned(p, "CompleteMultipartUpload")
         /\ Returned(q, "CompleteMultipartUpload")
         /\ op[p].bucket = op[q].bucket /\ op[p].uploadID = op[q].uploadID
         /\ res[p].err = "nil")
            => res[q].err = "multipart upload not found"

SidecarOf(u) == multipartDirOf(u[1], u[2])

\* C9: no GetObject and no HeadObject, whatever its bucket and key, returns a
\* part file or the manifest of an upload that is open; and once
\* CompleteMultipartUpload has returned nil the sidecar directory of the
\* upload does not exist.
C9_UploadVisibleOnlyThroughMultipart ==
    \A p \in SeqProcs :
        /\ (/\ pc[p] = "idle"
            /\ op[p].kind \in {"GetObject", "HeadObject"}
            /\ \E u \in DOMAIN upl :
                  upl[u] = "open" /\ IsPrefix(SidecarOf(u), loc[p].path))
               => res[p].err # "nil"
        /\ (Returned(p, "CompleteMultipartUpload") /\ res[p].err = "nil")
               => ~Exists(loc[p].dir)

\* C10: an UploadPart or CompleteMultipartUpload called on an upload that was
\* aborted or completed before returns the error of an upload that is not
\* found, at once: it creates no part file and no object.
C10_EndedUploadIsTerminal ==
    \A p \in SeqProcs :
        (late[p] /\ op[p].kind \in {"UploadPart", "CompleteMultipartUpload"})
            => pc[p] = "idle" /\ res[p].err = "multipart upload not found"

SignedParts == {"signature", "payload hash", "method", "path", "query", "header"}

\* C3: the verifier accepts every request that carries a valid V4 signature
\* for the configured credentials, and rejects with a signature mismatch every
\* request made from such a request by changing its signature, its payload
\* hash, its method, its path, its query or the value of a signed header.
C3_AcceptsValidRejectsChanged ==
    req.phase = "served" =>
        /\ req.changed = "none" => resp.err = "nil"
        /\ req.changed \in SignedParts => resp.err = "signature mismatch"

StorageVars == <<dirs, files, data, pc, op, loc, res>>

\* C4: the middleware invokes the wrapped handler exactly when Authenticate
\* returns nil; on every other request it answers 401 Unauthorized, the
\* wrapped handler is not invoked and the storage is left as it was.
C4_HandlerOnlyWhenAuthenticated ==
    [][(req.phase = "sent" /\ req'.phase = "served") =>
          IF Authenticate(req.r) = "nil"
          THEN resp'.next /\ resp'.status # 401
          ELSE /\ resp'.status = 401 /\ resp'.body = "Unauthorized\n"
               /\ ~resp'.next
               /\ UNCHANGED StorageVars]_vars

\* a request without an Authorization header was answered 401 and left alone
\* the bucket that a signed request had created before
C4_Witness ==
    /\ req.phase = "served"
    /\ HeaderGet(req.r, "Authorization") = <<>>
    /\ resp.status = 401
    /\ ~resp.next
    /\ bucketPath(<<"b">>) \in dirs

\* the status and headers the handler of goroutine p writes for its call
Response(p) == Respond(op[p], res[p])

\* the etag the last UploadPart of part n of the upload returned
LastETag(bucket, uploadID, n) == MD5Hex(partBody[<<bucket, uploadID, n>>])

\* a listed part that was never uploaded, or whose etag is not the one the
\* last UploadPart of its number returned
BadPart(bucket, uploadID, part) ==
    \/ <<bucket, uploadID, part.PartNumber>> \notin DOMAIN partBody
    \/ part.ETag # LastETag(bucket, uploadID, part.PartNumber)

\* C11: a CompleteMultipartUpload on an open upload that lists a part number
\* never uploaded, or an etag that is not the etag of the last UploadPart of
\* that number, fails with InvalidPart and leaves the object at (bucket, key)
\* as the call found it.
C11_CompleteValidatesListedParts ==
    \A p \in SeqProcs :
        (/\ Returned(p, "CompleteMultipartUpload")
         /\ ~late[p]
         /\ <<op[p].bucket, op[p].uploadID>> \in DOMAIN upl
         /\ \E i \in 1..Len(op[p].parts) :
               BadPart(op[p].bucket, op[p].uploadID, op[p].parts[i]))
            => /\ res[p].err = "InvalidPart"
               /\ Content(files, data, loc[p].path) = before[p]

\* C12: a CompleteMultipartUpload that returns an error leaves the object at
\* (bucket, key) byte for byte as the call found it, or still absent, so that
\* no partly assembled object is there for GetObject to return.
C12_FailedCompleteLeavesObject ==
    \A p \in SeqProcs :
        (Returned(p, "CompleteMultipartUpload") /\ res[p].err # "nil")
            => Content(files, data, loc[p].path) = before[p]

\* the range a Range header asks for of an object of size bytes, read as the
\* three forms "bytes=a-b", "bytes=a-" and "bytes=-n" of the HTTP range
RangeAsked(h, size) ==
    LET a == NumeralValue(h[2])
        b == NumeralValue(h[4])
        n == NumeralValue(h[3])
        none == [form |-> "none", first |-> 0, last |-> 0 - 1]
    IN  IF Len(h) = 4 /\ h[1] = "bytes=" /\ IsNumeral(h[2]) /\ h[3] = "-"
           /\ IsNumeral(h[4])
        THEN [form |-> "a-b", first |-> a, last |-> b]
        ELSE IF Len(h) = 3 /\ h[1] = "bytes=" /\ IsNumeral(h[2]) /\ h[3] = "-"
        THEN [form |-> "a-", first |-> a, last |-> size - 1]
        ELSE IF Len(h) = 3 /\ h[1] = "bytes=" /\ h[2] = "-" /\ IsNumeral(h[3])
        THEN [form |-> "-n", first |-> size - n, last |-> size - 1]
        ELSE none

\* 0 <= a <= b <= size - 1
InBounds(range, size) ==
    0 <= range.first /\ range.first <= range.last /\ range.last <= size - 1

\* body[a..b], both ends counted from 0 and included
Slice(body, range) == SubSeq(body, range.first + 1, range.last + 1)

\* a GetObject with a Range header has returned from an object whose bytes
\* are those of the last PutObject
RangedGet(p) ==
    /\ Returned(p, "GetObject")
    /\ op[p].rangeHeader # <<>>
    /\ loc[p].path \in DOMAIN stable

\* C13: on an object of size s, GetObject with "bytes=a-b" where
\* 0 <= a <= b <= s-1 returns the bytes body[a..b] and an info.Size of
\* b-a+1, and with "bytes=a-" where a <= s-1 the bytes body[a..s-1].
C13_RangeReturnsSlice ==
    \A p \in SeqProcs :
        LET body == stable[loc[p].path]
            range == RangeAsked(op[p].rangeHeader, Len(body))
        IN  (/\ RangedGet(p)
             /\ range.form \in {"a-b", "a-"}
             /\ InBounds(range, Len(body)))
                => /\ res[p].err = "nil"
                   /\ res[p].data = Slice(body, range)
                   /\ res[p].size = range.last - range.first + 1

\* "bytes=1-1" of a two-byte object returned its second byte alone
C13_Witness ==
    \E p \in SeqProcs :
        /\ RangedGet(p)
        /\ op[p].rangeHeader = <<"bytes=", "1", "-", "1">>
        /\ Len(stable[loc[p].path]) = 2
        /\ res[p].data = <<stable[loc[p].path][2]>>
        /\ res[p].size = 1

\* C14: a GetObject whose Range header is none of the three forms, or asks
\* for a range a-b or a- that is not within 0 <= a <= b <= size-1, is
\* answered with status 416 and returns no byte of the object.
C14_InvalidRangeIs416 ==
    \A p \in SeqProcs :
        LET body == stable[loc[p].path]
            range == RangeAsked(op[p].rangeHeader, Len(body))
        IN  (/\ RangedGet(p)
             /\ \/ range.form = "none"
                \/ range.form \in {"a-b", "a-"} /\ ~InBounds(range, Len(body)))
                => /\ Response(p).status = 416
                   /\ res[p].data = <<>>

\* C15: on an object of size s, GetObject with "bytes=-n" where 1 <= n <= s
\* returns the last n bytes, body[s-n..s-1].
C15_SuffixRangeReturnsTail ==
    \A p \in SeqProcs :
        LET body == stable[loc[p].path]
            range == RangeAsked(op[p].rangeHeader, Len(body))
        IN  (/\ RangedGet(p)
             /\ range.form = "-n"
             /\ InBounds(range, Len(body)))
                => /\ res[p].err = "nil"
                   /\ res[p].data = Slice(body, range)

\* an etag as S3 writes it on the wire
Quoted(etag) == <<"\"">> \o etag \o <<"\"">>

\* C16: the ETag the response to a PutObject carries, and the ETag of every
\* later GetObject and HeadObject of the object, is the hex MD5 of the bytes
\* stored, in double quotes.
C16_ETagIsQuotedMD5OfBody ==
    \A p \in SeqProcs :
        /\ (Returned(p, "PutObject") /\ res[p].err = "nil")
              => Response(p).etag = Quoted(MD5Hex(op[p].body))
        /\ (/\ pc[p] = "idle"
            /\ op[p].kind \in {"GetObject", "HeadObject"}
            /\ res[p].err = "nil"
            /\ loc[p].path \in DOMAIN stable)
              => Response(p).etag = Quoted(MD5Hex(stable[loc[p].path]))

\* C17: a GetObject of a key that a DeleteObject removed, with no PutObject
\* and no CompleteMultipartUpload called on that key since, returns NotFound.
C17_GetAfterDeleteIsNotFound ==
    \A p \in SeqProcs :
        (Returned(p, "GetObject") /\ <<op[p].bucket, op[p].key>> \in deleted)
            => res[p].err = "ErrNotFound"

\* C18: a DeleteObject of a key under which nothing is stored succeeds and is
\* answered with status 204.
C18_DeleteOfAbsentKeySucceeds ==
    \A p \in SeqProcs :
        (Returned(p, "DeleteObject") /\ before[p] = <<"absent">>)
            => res[p].err = "nil" /\ Response(p).status = 204

\* C19: a DeleteBucket of a bucket that holds an entry is answered with
\* status 409 and leaves the bucket with its entries; a DeleteBucket of an
\* empty bucket removes it.
C19_DeleteBucketNeedsEmptyBucket ==
    \A p \in SeqProcs :
        /\ (Returned(p, "DeleteBucket") /\ before[p] = <<"dir", TRUE>>)
              => /\ Response(p).status = 409
                 /\ Entry(loc[p].path) = <<"dir", TRUE>>
        /\ (Returned(p, "DeleteBucket") /\ before[p] = <<"dir", FALSE>>)
              => res[p].err = "nil" /\ ~Exists(loc[p].path)

\* no object is stored under the path of a bucket
NoObjectIn(bucket) ==
    \A path \in DOMAIN files : ~IsPrefix(bucketPath(bucket), path)

\* C20: a DeleteBucket of a bucket none of whose objects is left, whatever
\* the keys they were stored under, succeeds with status 204 and removes the
\* bucket, and ListBuckets lists no bucket that does not exist.
C20_BucketWithoutObjectsIsDeletable ==
    \A p \in SeqProcs :
        /\ (/\ Returned(p, "DeleteBucket")
            /\ Head(before[p]) = "dir"
            /\ NoObjectIn(op[p].bucket))
              => /\ res[p].err = "nil"
                 /\ Response(p).status = 204
                 /\ ~IsDir(bucketPath(op[p].bucket))
        /\ (Returned(p, "ListBuckets") /\ res[p].err = "nil")
              => \A i \in 1..Len(res[p].data) : IsDir(bucketPath(res[p].data[i]))
\* the names of the directories of the root, as ListBuckets finds them
TopDirs == {q \in dirs : Len(q) = Len(Root) + 1 /\ IsPrefix(Root, q)}

\* C21: A bucket exists only by CreateBucket and until DeleteBucket: a step
\* that adds a name to what ListBuckets lists is the return of a CreateBucket
\* of that name with no error, and a step that takes a name away is the
\* return of such a DeleteBucket; no other operation makes or ends a bucket.
C21_BucketsOnlyByCreateBucket ==
    [][/\ \A q \in TopDirs' \ TopDirs :
            \E p \in Procs : /\ pc[p] = "idle" /\ pc'[p] = "idle"
                              /\ op'[p].kind = "CreateBucket"
                              /\ bucketPath(op'[p].bucket) = q
                              /\ res'[p].err = "nil"
       /\ \A q \in TopDirs \ TopDirs' :
            \E p \in Procs : /\ pc[p] = "idle" /\ pc'[p] = "idle"
                              /\ op'[p].kind = "DeleteBucket"
                              /\ bucketPath(op'[p].bucket) = q
                              /\ res'[p].err = "nil"]_vars

\* C22: The name .multipart is reserved: a CreateBucket of it, and every
\* object operation on the bucket of that name, returns an error.
C22_MultipartNameIsReserved ==
    \A p \in Procs :
        (/\ pc[p] = "idle"
         /\ op[p].bucket = SidecarBucket
         /\ op[p].kind \in {"CreateBucket", "PutObject", "GetObject",
                            "HeadObject", "DeleteObject"})
            => res[p].err # "nil"

\* the names that begin with "."
DotNames == {".multipart"}

\* C23: ListBuckets returns, sorted by name, exactly the directories of the
\* root whose name does not begin with "."; .multipart is never among them.
C23_ListBucketsSkipsDotNames ==
    \A p \in Procs :
        (Returned(p, "ListBuckets") /\ res[p].err = "nil")
            => res[p].data
                 = SortedNames({q[Len(q)] : q \in TopDirs} \ DotNames, BucketOrder)

\* the keys of a listing
ListedKeys(objects) == [i \in 1..Len(objects) |-> objects[i].Key]

\* the keys under which the bucket stores an object and that begin with
\* prefix, in lexicographic order
Matching(bucket, prefix) ==
    SelectSeq(KeyOrder, LAMBDA k : /\ IsFile(objectPath(bucket, k))
                                   /\ HasPrefix(k, prefix))

\* C24: ListObjects(bucket, prefix) with room for every key returns, in
\* lexicographic order, exactly the keys of the objects the bucket stores
\* whose key begins with prefix, keys that hold a "/" among them.
C24_ListObjectsReturnsKeysWithPrefix ==
    \A p \in Procs :
        (/\ Returned(p, "ListObjects")
         /\ IsDir(bucketPath(op[p].bucket))
         /\ op[p].maxKeys = DefaultMaxKeys)
            => /\ res[p].err = "nil"
               /\ ListedKeys(res[p].data) = Matching(op[p].bucket, op[p].prefix)

\* the NextContinuationToken of the response to a listing: listObjectsV2
\* fills in Name, Prefix, KeyCount, MaxKeys, IsTruncated and Contents only
NextContinuationToken(o, r) == <<>>

\* C25: A listing holds at most maxKeys keys, the first of those that match;
\* it is truncated exactly when a matching key remains, and a truncated
\* listing carries a continuation token.
C25_TruncatedListingCarriesToken ==
    \A p \in Procs :
        (Returned(p, "ListObjects") /\ res[p].err = "nil")
            => LET all == Matching(op[p].bucket, op[p].prefix)
                   n == Len(res[p].data)
               IN  /\ n <= op[p].maxKeys
                   /\ n <= Len(all)
                   /\ ListedKeys(res[p].data) = SubSeq(all, 1, n)
                   /\ res[p].truncated = (n < Len(all))
                   /\ res[p].truncated => NextContinuationToken(op[p], res[p]) # <<>>

\* C28: An operation on what is not there reports it as not found: GetObject
\* and HeadObject of a key with no object, and ListObjects of a bucket that
\* does not exist, return ErrNotFound, and the response is 404.
C28_MissingIsNotFound ==
    \A p \in Procs :
        (\/ /\ Returned(p, "GetObject") \/ Returned(p, "HeadObject")
            /\ ~Exists(objectPath(op[p].bucket, op[p].key))
         \/ /\ Returned(p, "ListObjects")
            /\ ~Exists(bucketPath(op[p].bucket)))
            => /\ res[p].err = "ErrNotFound"
               /\ Response(p).status = 404

\* C29: PutObject stores all or nothing: when the stream ends with an error,
\* or delivers another number of bytes than the size declared (size >= 0),
\* PutObject returns an error and the object is what it was before the call.
C29_PutObjectIsAllOrNothing ==
    \A p \in Procs :
        (/\ Returned(p, "PutObject")
         /\ \/ op[p].readErr # "nil"
            \/ op[p].size >= 0 /\ op[p].size # Len(op[p].body))
            => /\ res[p].err # "nil"
               /\ Content(files, data, objectPath(op[p].bucket, op[p].key)) = before[p]

\* the query holds the key, with or without a value
HasKey(r, key) == \E i \in DOMAIN ParseQuery(r.RawQuery) : ParseQuery(r.RawQuery)[i].k = <<key>>

\* the operation of the routing table for a request, "" where the table has
\* no row for it
TableOperation(r) ==
    LET kind == PathKind(r)
        method == r.Method
    IN  IF kind = "root" THEN IF method = "GET" THEN "ListBuckets" ELSE ""
        ELSE IF kind = "bucket"
        THEN IF method = "PUT" THEN "CreateBucket"
             ELSE IF method = "DELETE" THEN "DeleteBucket"
             ELSE IF method = "GET"
             THEN IF HasKey(r, "uploads") THEN "ListMultipartUploads" ELSE "ListObjects"
             ELSE ""
        ELSE IF method = "GET" THEN "GetObject"
        ELSE IF method = "HEAD" THEN "HeadObject"
        ELSE IF method = "PUT"
        THEN IF HasKey(r, "uploadId") /\ HasKey(r, "partNumber") THEN "UploadPart"
             ELSE "PutObject"
        ELSE IF method = "POST"
        THEN IF HasKey(r, "uploads") THEN "InitiateMultipartUpload"
             ELSE IF HasKey(r, "uploadId") THEN "CompleteMultipartUpload"
             ELSE ""
        ELSE IF method = "DELETE"
        THEN IF HasKey(r, "uploadId") THEN "AbortMultipartUpload" ELSE "DeleteObject"
        ELSE ""

\* the operation of the storage engine a handler calls
StorageCall(h) == IF h = "InitiateMultipartUpload" THEN "InitMultipartUpload" ELSE h

\* the step in which the router serves the request of an authenticated
\* client calls the operation named h
Serves(h) ==
    \E p \in SeqProcs :
        /\ pc[p] = "idle"
        /\ nops' = nops - 1
        /\ resp'.status \notin {400, 405}
        /\ op'[p].kind = StorageCall(h)

\* every selector key the request sends has a value, its part number is a
\* number and, where the table names a completion, its body is the XML of one
WellFormed(r) ==
    /\ \A key \in {"uploads", "uploadId", "partNumber"} :
          HasKey(r, key) => QueryGet(r, key) # <<>>
    /\ HasKey(r, "partNumber") => ParseInt(QueryGet(r, "partNumber")).err = "nil"
    /\ TableOperation(r) = "CompleteMultipartUpload" => XMLDecode(r.Body).err = "nil"

\* C26: The dispatcher invokes, for every method, kind of path and query
\* selector, the operation of the routing table: POST on an object with
\* uploadId completes the upload; PUT on an object uploads a part when both
\* uploadId and partNumber are sent and puts the object in every other case;
\* DELETE on an object aborts the upload with uploadId and deletes the object
\* otherwise; GET on a bucket lists the uploads with uploads and the objects
\* otherwise.
C26_DispatcherFollowsRoutingTable ==
    [][(/\ req.phase = "sent"
        /\ req'.phase # "sent"
        /\ resp'.next
        /\ WellFormed(req.r)
        /\ TableOperation(req.r) # "")
          => Serves(TableOperation(req.r))]_vars

\* C27: The selector uploads counts by the presence of its key, with or
\* without a value: POST on an object with uploads initiates an upload, and
\* returns an upload id when the storage engine made one; GET on a bucket with
\* uploads lists the uploads, not the objects.
C27_UploadsSelectorByPresence ==
    [][(/\ req.phase = "sent"
        /\ req'.phase # "sent"
        /\ resp'.next
        /\ HasKey(req.r, "uploads")
        /\ \/ req.r.Method = "POST" /\ PathKind(req.r) = "object"
           \/ req.r.Method = "GET" /\ PathKind(req.r) = "bucket")
          => Serves(IF req.r.Method = "POST" THEN "InitiateMultipartUpload"
                    ELSE "ListMultipartUploads")]_vars

\* C30: The response to a request that fails verification is the same for
\* every failure: the status and the body of each are those of the response
\* to a request with no Authorization header.
C30_DenialsAreIndistinguishable ==
    (req.phase = "served" /\ ~resp.next)
        => /\ resp.status = 401
           /\ resp.body = DenialText("missing authorization header") \o "\n"

\* a request denied for another reason than a missing header
C30_Witness ==
    /\ req.phase = "served"
    /\ ~resp.next
    /\ resp.err = "signature mismatch"

\* a request answered with no word of the authentication middleware
ServedWithoutAuthentication == req.phase = "served" /\ resp.err = ""

\* C31: No request served without authentication matches a route of the
\* authenticated S3 routes (/{bucket}, /{bucket}/{key...}): the request is
\* one for which the S3 routes have no handler, so that every bucket stays
\* reachable through them.
C31_DiagnosticRoutesShadowNoS3Route ==
    ServedWithoutAuthentication => Route(req.r) = ""

\* the buckets and the objects a client can see
ObjectContents == [q \in {f \in DOMAIN files : UnderRoot(f)} |-> data[files[q]]]

\* C34: A request with no valid V4 signature changes neither the set of
\* buckets nor the contents of any object, whatever path of the server it
\* is sent to.
C34_UnsignedRequestsChangeNothing ==
    [][(req.phase \in {"sent", "handling"} /\ Authenticate(req.r) # "nil")
          => (TopDirs' = TopDirs /\ ObjectContents' = ObjectContents)]_vars

\* the error kind of the first check that fails, the checks taken in the
\* order the specification gives; the algorithm of a header is its text before the first
\* space
FirstFailingCheck(r) ==
    LET header == HeaderGet(r, "Authorization")
        algorithm == SplitN2(header, " ")[1]
        list == IF Len(SplitN2(header, " ")) = 2 THEN SplitN2(header, " ")[2] ELSE <<>>
        credential == Component(Split(list, ","), "Credential=")
        signedHeaders == Component(Split(list, ","), "SignedHeaders=")
        signature == Component(Split(list, ","), "Signature=")
    IN  IF Flat(header) = "" THEN "missing authorization header"
        ELSE IF Flat(algorithm) # "AWS4-HMAC-SHA256"
        THEN "unsupported authorization method"
        ELSE IF Len(SplitN2(header, " ")) # 2
        THEN "invalid authorization header format"
        ELSE IF \E c \in {credential, signedHeaders, signature} : Flat(c) = ""
        THEN "missing required authorization components"
        ELSE IF Len(Split(credential, "/")) # 5 THEN "invalid credential format"
        ELSE IF Flat(Split(credential, "/")[1]) # AccessKey THEN "invalid access key"
        ELSE IF Flat(signature) # calculateSignature(r, credential, signedHeaders)
        THEN "signature mismatch"
        ELSE "nil"

\* C32: Authenticate returns the error kind of the first failing check, in
\* the order: Authorization header missing, algorithm other than
\* AWS4-HMAC-SHA256, no component list after the algorithm, one of
\* Credential, SignedHeaders and Signature missing, credential not of five
\* fields, access key not the configured one, signature mismatch; and nil
\* only when every check passes.
C32_ErrorKindOfFirstFailingCheck ==
    req.phase # "none" => Authenticate(req.r) = FirstFailingCheck(req.r)

\* the uploads of the bucket that were initiated and neither completed nor
\* aborted, each with its upload id and the key it was initiated for
OpenUploads(bucket) ==
    {[UploadID |-> t[2], Key |-> t[3]] : t \in {x \in opened : x[1] = bucket}}

\* C33: ListMultipartUploads(bucket) returns exactly the open uploads of the
\* bucket, each once, with its upload id and the key it was initiated for,
\* and no upload that was completed or aborted.
C33_ListMultipartUploadsReturnsOpenUploads ==
    \A p \in Procs :
        (Returned(p, "ListMultipartUploads") /\ res[p].err = "nil")
            => /\ {res[p].data[i] : i \in 1..Len(res[p].data)} = OpenUploads(op[p].bucket)
               /\ Len(res[p].data) = Cardinality(OpenUploads(op[p].bucket))

\* C35: UploadPart and CompleteMultipartUpload on an upload id succeed only
\* when called with the bucket and the key the upload was initiated with, so
\* that an upload initiated for one key never writes the object of another.
C35_UploadBoundToBucketAndKey ==
    [][\A p \in Procs :
          (/\ pc[p] # "idle"
           /\ pc'[p] = "idle"
           /\ op[p].kind \in {"UploadPart", "CompleteMultipartUpload"}
           /\ res'[p].err = "nil")
              => <<op[p].bucket, op[p].uploadID, op[p].key>> \in opened]_vars

\* the directory <root>/.multipart/<bucket>/<uploadID>, the upload id taken
\* as the one name it is
NamedSidecar(bucket, uploadID) ==
    Root \o <<".multipart">> \o bucket \o <<Flat(uploadID)>>

\* the directories and the files, with their contents, outside a directory
Outside(dir, ds, fs, dt) ==
    [dirs |-> {q \in ds : ~IsPrefix(dir, q)},
     files |-> [q \in {f \in DOMAIN fs : ~IsPrefix(dir, f)} |-> dt[fs[q]]]]

\* C36: AbortMultipartUpload returns nil and removes nothing but the sidecar
\* of the upload it names: the buckets, the objects and the sidecars of the
\* other uploads are after the call what they were before it, for an upload
\* id that names no upload and one that holds ".." or "/" as for any other.
C36_AbortRemovesOnlyNamedSidecar ==
    [][\A p \in SeqProcs :
          (pc[p] = "idle" /\ nops' # nops /\ op'[p].kind = "AbortMultipartUpload")
              => LET dir == NamedSidecar(op'[p].bucket, op'[p].uploadID)
                 IN  /\ res'[p].err = "nil"
                     /\ Outside(dir, dirs', files', data')
                            = Outside(dir, dirs, files, data)]_vars

\* what GetObject(bucket, key) finds to return
Stored(bucket, key, fs, dt) == Content(fs, dt, objectPath(bucket, key))

\* C37: Two different keys of a bucket name independent objects, a key that
\* is a "/"-prefix of another and keys with ".", ".." and empty segments
\* included: PutObject on each key succeeds, and no step of a PutObject or a
\* DeleteObject of one key changes what GetObject of another returns.
C37_DistinctKeysAreIndependent ==
    [][\A p \in SeqProcs :
          ((pc[p] # "idle" \/ nops' # nops)
              /\ op'[p].kind \in {"PutObject", "DeleteObject"})
            => /\ (op'[p].kind = "PutObject" /\ pc'[p] = "idle") => res'[p].err = "nil"
               /\ \A k2 \in SegmentKeys \ {op'[p].key} :
                      Stored(op'[p].bucket, k2, files', data')
                          = Stored(op'[p].bucket, k2, files, data)]_vars

\* C38: Two InitiateMultipartUpload calls never return the same upload id,
\* two calls that run at once on one bucket included: the id a call returns
\* was returned by no call of the bucket before it.
C38_UploadIDsAreDistinct ==
    [][\A p \in Procs :
          (/\ pc[p] # "idle"
           /\ pc'[p] = "idle"
           /\ op[p].kind = "InitMultipartUpload"
           /\ res'[p].err = "nil")
              => <<op[p].bucket, res'[p].uploadID>> \notin DOMAIN upl]_vars

\* the SignedHeaders of the Authorization header of a request
SignedHeadersOf(r) ==
    LET parts == SplitN2(HeaderGet(r, "Authorization"), " ")
    IN  IF Len(parts) = 2 THEN Component(Split(parts[2], ","), "SignedHeaders=")
        ELSE <<>>

\* the canonical form the specification gives: the pairs of the query sorted by encoded
\* key, ties broken by encoded value; the header names lowercased, then
\* sorted
CanonicalForm(r, signedHeaders) ==
    LET path == IF URLPath(r) = <<>> THEN <<"/">> ELSE URLPath(r)
        encoded == [i \in 1..Len(ParseQuery(r.RawQuery)) |->
                       [k |-> QueryEscape(ParseQuery(r.RawQuery)[i].k),
                        v |-> QueryEscape(ParseQuery(r.RawQuery)[i].v)]]
        sorted == SortPairs(encoded)
        query == JoinStr([i \in 1..Len(sorted) |-> sorted[i].k \o <<"=">> \o sorted[i].v],
                         "&")
        lowered == [i \in 1..Len(Split(signedHeaders, ";")) |->
                       <<ToLower(Flat(Split(signedHeaders, ";")[i]))>>]
        names == SortStrings(lowered)
        lines == [i \in 1..Len(names) |->
                     names[i] \o <<":">>
                        \o TrimSpace(IF names[i] = <<"host">> THEN r.Host
                                      ELSE HeaderGet(r, Flat(names[i])))]
        sent == HeaderGet(r, "X-Amz-Content-Sha256")
    IN  <<r.Method, "\n">> \o path \o <<"\n">> \o query \o <<"\n">>
            \o JoinStr(lines, "\n") \o <<"\n", "\n">> \o signedHeaders \o <<"\n">>
            \o (IF sent = <<>> THEN <<"UNSIGNED-PAYLOAD">> ELSE sent)

\* C39: CreateCanonicalRequest returns the canonical form: the method, the
\* path ("/" when empty), the query with its parameters sorted by encoded
\* key and ties broken by encoded value, a line for each signed header with
\* the names lowercased and sorted and host taken from r.Host, a blank line,
\* the SignedHeaders string, and the x-amz-content-sha256 value or
\* UNSIGNED-PAYLOAD.
C39_CanonicalRequestForm ==
    req.phase # "none"
        => Flat(CreateCanonicalRequest(req.r, SignedHeadersOf(req.r)))
              = Flat(CanonicalForm(req.r, SignedHeadersOf(req.r)))

=============================================================================
